---- MODULE Spec2Model ----
(***************************************************************************)
(* Model of the Saviynt MCP server core (saviynt-mcp-server.ts): the       *)
(* profile store, the token cache, the active-profile pointer, the login   *)
(* exchange (ensureBearerToken) and the API gateway (callSaviyntApi), as   *)
(* driven by tool invocations.  The actions take the invocation slot as a  *)
(* parameter; the specifications below run one invocation at a time.       *)
(*                                                                         *)
(* Strings are sequences of one-character strings, so that trimming,       *)
(* trailing-slash stripping, key concatenation and startsWith are computed *)
(* the way the code computes them.  The empty sequence stands for every    *)
(* falsy string-like value of the code (undefined, null, "").              *)
(*                                                                         *)
(* An action is one run of a tool invocation between two network awaits    *)
(* (fetch + response body): the runtime runs such a stretch without        *)
(* interleaving another invocation, and Date.now() is taken as constant    *)
(* within it.                                                              *)
(***************************************************************************)
EXTENDS Integers, Sequences, FiniteSets, TLC

\* ------------------------------------------------------------------------
\* Bounds of the model
\* ------------------------------------------------------------------------
MaxCalls == 3
MaxTicks == 1
TickMs == 30000

\* ------------------------------------------------------------------------
\* Program constants
\* ------------------------------------------------------------------------
None == <<>>
Sep == <<":", ":">>
DEFAULT_PROFILE_ID == <<"d">>
ENV_PROFILE_ID == <<"e">>
LOGIN_ENDPOINTS == <<"/ECM/api/login", "/ECM/api/v1/token">>
WRITE_METHODS == {"POST", "PUT", "PATCH", "DELETE"}
defaultExpirySeconds == 3600
MinRefreshSeconds == 30
RefreshPercent == 92

\* ------------------------------------------------------------------------
\* String helpers
\* ------------------------------------------------------------------------
RECURSIVE TrimLeft(_)
TrimLeft(s) ==
  IF s # <<>> /\ Head(s) = " " THEN TrimLeft(Tail(s)) ELSE s

RECURSIVE TrimRight(_)
TrimRight(s) ==
  IF s # <<>> /\ s[Len(s)] = " " THEN TrimRight(SubSeq(s, 1, Len(s) - 1)) ELSE s

\* asString: a string is trimmed; an empty result is undefined.
asStringUntrimmed(value) == value

asString(value) == TrimRight(TrimLeft(value))

\* normalizeBaseUrl: url.replace(/\/+$/, "")
RECURSIVE normalizeBaseUrl(_)
normalizeBaseUrl(url) ==
  IF url # <<>> /\ url[Len(url)] = "/"
    THEN normalizeBaseUrl(SubSeq(url, 1, Len(url) - 1))
    ELSE url

StartsWith(s, prefix) ==
  Len(s) >= Len(prefix) /\ SubSeq(s, 1, Len(prefix)) = prefix

getTokenCacheKey(profileId, baseUrl) ==
  profileId \o Sep \o normalizeBaseUrl(baseUrl)

Max(a, b) == IF a >= b THEN a ELSE b

refreshSecondsUnclamped(expiresInSeconds) ==
  (expiresInSeconds * RefreshPercent) \div 100

\* Math.max(30, Math.floor(expiresInSeconds * 0.92))
refreshSeconds(expiresInSeconds) ==
  Max(MinRefreshSeconds, (expiresInSeconds * RefreshPercent) \div 100)

\* getTokenExpirySeconds: the reported lifetime when it is a positive
\* number, the default otherwise (0 stands for "no recognizable field").
getTokenExpirySeconds(reported) ==
  IF reported > 0 THEN reported ELSE defaultExpirySeconds

\* ------------------------------------------------------------------------
\* Answers of the upstream and endpoint arguments
\* ------------------------------------------------------------------------
ReportedLifetimes == {0, 10, 37}
ApiStatuses == {200, 401, 500}
EndpointArgs == {"/ECM/api/v5/getUser", "/ECM/api/login", " "}

\* endpointLower.includes("/login") || endpointLower.includes("/token")
authOptionalPath(endpoint) == endpoint = "/ECM/api/login"

\* An endpoint argument that is an absolute URL of another host
AbsoluteEndpoint == "https://x/ECM/api/v5/getUser"

\* new URL(endpoint, baseUrl): the base endpoint the request is sent to. An
\* absolute endpoint replaces the base URL, a path is resolved against it.
requestOrigin(endpoint, baseUrl) ==
  IF endpoint = AbsoluteEndpoint THEN <<"x">> ELSE baseUrl

\* asString(args.endpoint) of the endpoint inputs above
endpointGiven(endpoint) == endpoint # " "

\* ------------------------------------------------------------------------
\* Result shaping (okResult)
\* ------------------------------------------------------------------------
DEFAULT_MAX_RESULT_TEXT_CHARS == 20000
DEFAULT_MAX_STRUCTURED_CONTENT_CHARS == 4000
MaxSummaryKeys == 50

\* Key names of the values that are shaped: one character each.
KeyNames ==
  <<"a", "b", "c", "d", "e", "f", "g", "h", "i", "j", "k", "l", "m", "n",
    "o", "p", "q", "r", "s", "t", "u", "v", "w", "x", "y", "z", "A", "B",
    "C", "D", "E", "F", "G", "H", "I", "J", "K", "L", "M", "N", "O", "P",
    "Q", "R", "S", "T", "U", "V", "W", "X", "Y", "Z">>

\* The values handed to okResult: a string (chars), a plain keyed structure
\* whose keys, in their order, all have the value 1 (keys), or an array of
\* ones (items).
StringValue(chars) == [kind |-> "string", chars |-> chars, keys |-> <<>>, items |-> 0]
RecordValue(keys) == [kind |-> "record", chars |-> <<>>, keys |-> keys, items |-> 0]
ArrayValue(items) == [kind |-> "array", chars |-> <<>>, keys |-> <<>>, items |-> items]

isObject(value) == value.kind # "string"

\* isRecord(value)
isRecord(value) == value.kind = "record"

\* Number.parseInt(value, 10) of an environment variable, when it is finite
\* and positive, else the fallback (0 stands for a variable that is unset,
\* not numeric or not positive).
positiveIntFromEnv(value, fallback) == IF value > 0 THEN value ELSE fallback

RECURSIVE Digits(_)
Digits(n) ==
  LET digit == <<"0", "1", "2", "3", "4", "5", "6", "7", "8", "9">>[(n % 10) + 1]
  IN IF n < 10 THEN <<digit>> ELSE Digits(n \div 10) \o <<digit>>

\* JSON.stringify(value, null, 2) of a keyed structure and of an array
RECURSIVE Members(_)
Members(keys) ==
  IF keys = <<>> THEN <<>>
  ELSE <<"\n", " ", " ", "\"", Head(keys), "\"", ":", " ", "1">>
       \o (IF Len(keys) > 1 THEN <<",">> ELSE <<>>) \o Members(Tail(keys))

RECURSIVE Elements(_)
Elements(items) ==
  IF items = 0 THEN <<>>
  ELSE <<"\n", " ", " ", "1">> \o (IF items > 1 THEN <<",">> ELSE <<>>)
       \o Elements(items - 1)

\* asJsonText: a string as it is, anything else as indented JSON
asJsonText(value) ==
  IF value.kind = "string" THEN value.chars
  ELSE IF value.kind = "record"
    THEN IF value.keys = <<>> THEN <<"{", "}">>
         ELSE <<"{">> \o Members(value.keys) \o <<"\n", "}">>
  ELSE IF value.items = 0 THEN <<"[", "]">>
       ELSE <<"[">> \o Elements(value.items) \o <<"\n", "]">>

TruncationMarker(dropped) ==
  <<"\n", "\n", ".", ".", ".", " ", "[", "t", "r", "u", "n", "c", "a", "t",
    "e", "d", " ">>
  \o Digits(dropped) \o
  <<" ", "c", "h", "a", "r", "s", " ", "d", "u", "e", " ", "t", "o", " ",
    "M", "C", "P", " ", "r", "e", "s", "p", "o", "n", "s", "e", " ", "s",
    "i", "z", "e", " ", "l", "i", "m", "i", "t", "]">>

SliceUncapped(s, n) == s

\* fullText.slice(0, n), Object.keys(value).slice(0, n)
Slice(s, n) == SubSeq(s, 1, IF Len(s) < n THEN Len(s) ELSE n)

\* The structured payload of a result: none, the value itself, or one of
\* the two summary envelopes.
NoStructuredContent == [kind |-> "none"]
PassedThrough(value) == [kind |-> "value", value |-> value]

shapeTruncatingAtLimit(value, maxTextChars, maxStructuredChars) ==
  LET Shaped(fullText) ==
        IF Len(fullText) >= maxTextChars
          THEN [text |-> Slice(fullText, maxTextChars)
                           \o TruncationMarker(Len(fullText) - maxTextChars),
                structuredContent |->
                  [kind |-> "summary", success |-> TRUE, truncated |-> TRUE,
                   originalChars |-> Len(fullText),
                   returnedChars |-> maxTextChars,
                   message |-> "Result was truncated"]]
        ELSE IF ~isRecord(value)
          THEN [text |-> fullText, structuredContent |-> NoStructuredContent]
        ELSE IF Len(fullText) > maxStructuredChars
          THEN [text |-> fullText,
                structuredContent |->
                  [kind |-> "summary", success |-> TRUE, truncated |-> TRUE,
                   originalChars |-> Len(fullText),
                   message |-> "structuredContent omitted",
                   keys |-> Slice(value.keys, MaxSummaryKeys)]]
        ELSE [text |-> fullText, structuredContent |-> PassedThrough(value)]
  IN Shaped(asJsonText(value))

\* okResult(value) after its two maxima have been read
shape(value, maxTextChars, maxStructuredChars) ==
  LET Shaped(fullText) ==
        IF Len(fullText) > maxTextChars
          THEN [text |-> Slice(fullText, maxTextChars)
                           \o TruncationMarker(Len(fullText) - maxTextChars),
                structuredContent |->
                  [kind |-> "summary", success |-> TRUE, truncated |-> TRUE,
                   originalChars |-> Len(fullText),
                   returnedChars |-> maxTextChars,
                   message |-> "Result was truncated"]]
        ELSE IF ~isRecord(value)
          THEN [text |-> fullText, structuredContent |-> NoStructuredContent]
        ELSE IF Len(fullText) > maxStructuredChars
          THEN [text |-> fullText,
                structuredContent |->
                  [kind |-> "summary", success |-> TRUE, truncated |-> TRUE,
                   originalChars |-> Len(fullText),
                   message |-> "structuredContent omitted",
                   keys |-> Slice(value.keys, MaxSummaryKeys)]]
        ELSE [text |-> fullText, structuredContent |-> PassedThrough(value)]
  IN Shaped(asJsonText(value))


\* ------------------------------------------------------------------------
\* State
\* ------------------------------------------------------------------------
VARIABLES
  writesEnabled,     \* process configuration, read at construction
  defaultBaseUrl,
  serviceUsername,
  servicePassword,
  profiles,          \* Map<string, SaviyntProfileState>
  tokenCache,        \* Map<string, SaviyntTokenState>
  activeProfileId,   \* string | null
  now,               \* Date.now()
  issued,            \* number of bearer tokens the upstream has issued
  calls,             \* number of tool invocations started
  inv,               \* the tool invocations in progress
  env,               \* process.env
  envAtConstruction, \* process.env as createSaviyntMcpServer found it
  shaped,            \* the last value okResult was given, and its result
  instances,         \* the server instances of the process: which one the
                     \* state above belongs to, and the state of another
  entry,             \* the profiles and the active pointer as the login
                     \* invocation in progress found them
  http               \* the HTTP server: its session table and shutdown

vars == <<writesEnabled, defaultBaseUrl, serviceUsername, servicePassword,
          profiles, tokenCache, activeProfileId, now, issued, calls, inv,
          env, envAtConstruction, shaped, instances, entry, http>>

config == <<writesEnabled, defaultBaseUrl, serviceUsername, servicePassword>>

process == <<env, envAtConstruction, instances, entry, http>>

Invocations == {1, 2}

NoProfile ==
  [profileId |-> None, username |-> None, password |-> None,
   baseUrl |-> None, source |-> ""]

NoOpts ==
  [baseUrl |-> None, profileId |-> None,
   requiresAuth |-> FALSE, retryOnUnauthorized |-> FALSE]

NoLogin ==
  [profile |-> NoProfile, baseUrl |-> None, cacheKey |-> None,
   endpoint |-> 0, payload |-> 0, attempts |-> <<>>]

NoArgs ==
  [profileId |-> None, username |-> None, password |-> None, url |-> None,
   setActive |-> TRUE, authenticate |-> FALSE]

\* Events of an invocation's trace.
Exchange == <<"exchange", 0>>
Obtained(token, lifetime) == <<"token", token, lifetime>>

Request(token) == <<"request", token>>
Answered(status) == <<"status", status>>
Invalidated(left) == <<"invalidated", left>>
Deactivated == <<"deactivated", 0>>

\* The result envelopes: okResult, errorResult and loginRequiredResult, by
\* what tells them apart (the content, isError, structuredContent.action);
\* NoResult while the invocation has not returned.
NoResult == [content |-> "", isError |-> FALSE, action |-> ""]
okResult == [content |-> "value", isError |-> FALSE, action |-> ""]
errorResult == [content |-> "error", isError |-> TRUE, action |-> ""]
loginRequiredResult ==
  [content |-> "login required", isError |-> TRUE,
   action |-> "render_login_form"]

\* One tool invocation: the position (pc), the ambient toolCallContext
\* (ctx), the locals of callSaviyntApi (opts, profile, baseUrl, token), the
\* locals of ensureBearerToken (login) with the place it returns to (cont),
\* and a record of the invocation for the properties: whether the operation
\* is write-classified (write), the credentials a profile tool was given
\* (args), the number of cache entries upsertProfile or the delete handler
\* removed (purged), the sequence of its network and cache events (trace),
\* the attempts a failed login exchange reports (attempts) and the result
\* it returns (result); for a handler that makes several gateway calls in
\* a row, the number of calls it still has to make after the current one
\* (subcalls).
Idle ==
  [pc |-> "idle", tool |-> "", ctx |-> None, opts |-> NoOpts,
   profile |-> NoProfile, baseUrl |-> None, token |-> 0,
   login |-> NoLogin, cont |-> "", outcome |-> "", write |-> FALSE,
   args |-> NoArgs, purged |-> 0, trace |-> <<>>, attempts |-> <<>>,
   result |-> NoResult, subcalls |-> 0, endpoint |-> ""]

Store ==
  [profiles |-> profiles, tokenCache |-> tokenCache,
   activeProfileId |-> activeProfileId]

SetStore(st) ==
  /\ profiles' = st.profiles
  /\ tokenCache' = st.tokenCache
  /\ activeProfileId' = st.activeProfileId

Drop(f, keys) == [k \in DOMAIN f \ keys |-> f[k]]

Put(f, key, value) ==
  [k \in DOMAIN f \cup {key} |-> IF k = key THEN value ELSE f[k]]

\* ------------------------------------------------------------------------
\* Profile store and token cache
\* ------------------------------------------------------------------------
clearTokenCacheForStoredBaseUrl(st, profileId) ==
  IF profileId \in DOMAIN st.profiles
    THEN [st EXCEPT !.tokenCache =
            Drop(st.tokenCache,
                 {getTokenCacheKey(profileId, st.profiles[profileId].baseUrl)})]
    ELSE st

clearTokenCacheForProfile(st, profileId) ==
  [st EXCEPT !.tokenCache =
     Drop(st.tokenCache,
          {k \in DOMAIN st.tokenCache : StartsWith(k, profileId \o Sep)})]

keepTokenCacheForProfileBaseUrl(st, profileId, baseUrl) == st

clearTokenCacheForProfileAnyBaseUrl(st, profileId, baseUrl) ==
  clearTokenCacheForProfile(st, profileId)

clearTokenCacheForProfileBaseUrl(st, profileId, baseUrl) ==
  [st EXCEPT !.tokenCache =
     Drop(st.tokenCache, {getTokenCacheKey(profileId, baseUrl)})]

upsertProfile(st, profile, setActive) ==
  LET has == profile.profileId \in DOMAIN st.profiles
      existing == st.profiles[profile.profileId]
      changed == has /\ (\/ existing.baseUrl # profile.baseUrl
                         \/ existing.username # profile.username
                         \/ existing.password # profile.password)
      next == profile
      Stored(st1) ==
        [st |-> [st1 EXCEPT
                   !.profiles = Put(st1.profiles, next.profileId, next),
                   !.activeProfileId = IF setActive THEN next.profileId ELSE @],
         profile |-> next]
  IN Stored(IF changed THEN clearTokenCacheForProfile(st, profile.profileId)
                       ELSE st)

ensureAuthFromDefaultBaseUrl(st, preferredBaseUrl) ==
  IF serviceUsername = None \/ servicePassword = None \/ defaultBaseUrl = None
    THEN [st |-> st, profile |-> NoProfile]
    ELSE upsertProfile(st,
           [profileId |-> ENV_PROFILE_ID, username |-> serviceUsername,
            password |-> servicePassword,
            baseUrl |-> normalizeBaseUrl(defaultBaseUrl),
            source |-> "env"],
           st.activeProfileId = None)

ensureAuthFromEnvironment(st, preferredBaseUrl) ==
  LET envBaseUrl == IF asString(preferredBaseUrl) # None
                      THEN asString(preferredBaseUrl) ELSE defaultBaseUrl
  IN IF serviceUsername = None \/ servicePassword = None
       THEN [st |-> st, profile |-> NoProfile]
     ELSE IF envBaseUrl = None
       THEN [st |-> st, profile |-> NoProfile]
     ELSE upsertProfile(st,
            [profileId |-> ENV_PROFILE_ID, username |-> serviceUsername,
             password |-> servicePassword,
             baseUrl |-> normalizeBaseUrl(envBaseUrl),
             source |-> "env"],
            st.activeProfileId = None)

resolveAnyExistingProfile(st, requestedProfileId) ==
  LET explicitProfileId == asString(requestedProfileId)
      ids == IF explicitProfileId # None THEN {explicitProfileId}
             ELSE IF st.activeProfileId # None THEN {st.activeProfileId}
             ELSE DOMAIN st.profiles
      found == ids \cap DOMAIN st.profiles
  IN IF found # {}
       THEN [st |-> st, profile |-> st.profiles[CHOOSE id \in found : TRUE]]
       ELSE [st |-> [st EXCEPT !.activeProfileId = None], profile |-> NoProfile]

resolveExistingProfile(st, requestedProfileId) ==
  LET explicitProfileId == asString(requestedProfileId)
  IN IF explicitProfileId # None
       THEN [st |-> st,
             profile |-> IF explicitProfileId \in DOMAIN st.profiles
                           THEN st.profiles[explicitProfileId] ELSE NoProfile]
     ELSE IF st.activeProfileId # None
       THEN IF st.activeProfileId \in DOMAIN st.profiles
              THEN [st |-> st, profile |-> st.profiles[st.activeProfileId]]
              ELSE [st |-> [st EXCEPT !.activeProfileId = None],
                    profile |-> NoProfile]
     ELSE [st |-> st, profile |-> NoProfile]

ensureLoggedInProfileOrActive(st, requestedProfileId, preferredBaseUrl) ==
  LET Resolved(existingProfile) ==
        [st |-> existingProfile.st, profile |-> existingProfile.profile,
         error |-> IF existingProfile.profile # NoProfile
                     THEN "" ELSE "LoginRequired"]
  IN Resolved(resolveExistingProfile(
                st, IF asString(requestedProfileId) \in DOMAIN st.profiles
                      THEN requestedProfileId ELSE None))

ensureLoggedInProfile(st, requestedProfileId, preferredBaseUrl) ==
  LET explicitProfileId == asString(requestedProfileId)
      Found(st1, profile) == [st |-> st1, profile |-> profile, error |-> ""]
      Missing(st1) ==
        [st |-> st1, profile |-> NoProfile, error |-> "LoginRequired"]
      FromEnvironment(envProfile, st1) ==
        IF envProfile.profile # NoProfile
          THEN Found(envProfile.st, envProfile.profile)
          ELSE Missing(st1)
      Implicit(existingProfile) ==
        IF existingProfile.profile # NoProfile
          THEN Found(existingProfile.st, existingProfile.profile)
          ELSE FromEnvironment(
                 ensureAuthFromEnvironment(existingProfile.st, preferredBaseUrl),
                 existingProfile.st)
  IN IF explicitProfileId # None
       THEN IF explicitProfileId \in DOMAIN st.profiles
              THEN Found(st, st.profiles[explicitProfileId])
            ELSE IF explicitProfileId = ENV_PROFILE_ID
              THEN FromEnvironment(
                     ensureAuthFromEnvironment(st, preferredBaseUrl), st)
            ELSE Missing(st)
     ELSE Implicit(resolveExistingProfile(st, None))

resolveBaseUrlProfileFirst(value, profile) ==
  LET fromArg == asString(value)
  IN IF profile.baseUrl # None
       THEN [baseUrl |-> profile.baseUrl, error |-> ""]
     ELSE IF fromArg # None
       THEN [baseUrl |-> normalizeBaseUrl(fromArg), error |-> ""]
     ELSE IF defaultBaseUrl # None
       THEN [baseUrl |-> defaultBaseUrl, error |-> ""]
     ELSE [baseUrl |-> None, error |-> "MissingConfiguration"]

resolveBaseUrl(value, profile) ==
  LET fromArg == asString(value)
  IN IF fromArg # None
       THEN [baseUrl |-> normalizeBaseUrl(fromArg), error |-> ""]
     ELSE IF profile.baseUrl # None
       THEN [baseUrl |-> profile.baseUrl, error |-> ""]
     ELSE IF defaultBaseUrl # None
       THEN [baseUrl |-> defaultBaseUrl, error |-> ""]
     ELSE [baseUrl |-> None, error |-> "MissingConfiguration"]

resolveProfileForRequest(st, requestedProfileId, preferredBaseUrl) ==
  LET explicitProfileId == asString(requestedProfileId)
      Implicit(existingProfile) ==
        IF existingProfile.profile # NoProfile
          THEN existingProfile
          ELSE ensureAuthFromEnvironment(existingProfile.st, preferredBaseUrl)
  IN IF explicitProfileId # None
       THEN IF explicitProfileId \in DOMAIN st.profiles
              THEN [st |-> st, profile |-> st.profiles[explicitProfileId]]
            ELSE IF explicitProfileId = ENV_PROFILE_ID
              THEN ensureAuthFromEnvironment(st, preferredBaseUrl)
            ELSE [st |-> st, profile |-> NoProfile]
     ELSE Implicit(resolveExistingProfile(st, None))

\* ------------------------------------------------------------------------
\* Authenticator
\* ------------------------------------------------------------------------
writesAlwaysEnabled(toolName) == TRUE

ensureWritesEnabled(toolName) == writesEnabled

\* cached.tokenExpiresAt > Date.now()
stillValidAtExpiry(tokenExpiresAt) == now <= tokenExpiresAt

notExpired(tokenExpiresAt) == now < tokenExpiresAt

LoginAnswers ==
  {[status |-> 401, token |-> FALSE, expires |-> 0],
   [status |-> 200, token |-> FALSE, expires |-> 0]}
  \cup {[status |-> 200, token |-> TRUE, expires |-> l] : l \in ReportedLifetimes}

NumPayloadCandidates == 2

\* ensureBearerToken up to its first await: "token" when the cached bearer
\* value is returned, "fetch" when a login exchange starts, else the error
\* thrown.
ensureBearerTokenStart(st, forceRefresh, requestedProfileId, preferredBaseUrl) ==
  LET Start(r, b) ==
        LET cacheKey == getTokenCacheKey(r.profile.profileId, b.baseUrl)
            has == cacheKey \in DOMAIN r.st.tokenCache
            cachedToken == r.st.tokenCache[cacheKey]
            usable == /\ ~forceRefresh
                      /\ has
                      /\ cachedToken.bearerToken # 0
                      /\ cachedToken.tokenExpiresAt # 0
            frame == [profile |-> r.profile, baseUrl |-> b.baseUrl,
                      cacheKey |-> cacheKey, endpoint |-> 1, payload |-> 1,
                      attempts |-> <<>>]
        IN IF r.error # ""
             THEN [st |-> r.st, outcome |-> r.error, token |-> 0, login |-> NoLogin]
           ELSE IF b.error # ""
             THEN [st |-> r.st, outcome |-> b.error, token |-> 0, login |-> NoLogin]
           ELSE IF usable /\ notExpired(cachedToken.tokenExpiresAt)
             THEN [st |-> r.st, outcome |-> "token",
                   token |-> cachedToken.bearerToken, login |-> NoLogin]
           ELSE [st |-> IF usable
                          THEN [r.st EXCEPT
                                  !.tokenCache = Drop(r.st.tokenCache, {cacheKey})]
                          ELSE r.st,
                 outcome |-> "fetch", token |-> 0, login |-> frame]
      WithProfile(r) == Start(r, resolveBaseUrl(preferredBaseUrl, r.profile))
  IN WithProfile(ensureLoggedInProfile(st, requestedProfileId, preferredBaseUrl))

\* The cache entry a successful login attempt stores.
tokenState(token, expires) ==
  [bearerToken |-> token,
   tokenExpiresAt |-> now + refreshSeconds(getTokenExpirySeconds(expires)) * 1000]

\* ------------------------------------------------------------------------
\* Steps of an invocation record
\* ------------------------------------------------------------------------
toolResultWithoutLoginForm(outcome) ==
  IF outcome = "OK" THEN okResult ELSE errorResult

\* The result an invocation returns: the handler's okResult or errorResult,
\* or the conversion of what it throws by the catch of registerTool.
toolResult(outcome) ==
  IF outcome = "OK" THEN okResult
  ELSE IF outcome = "LoginRequired" THEN loginRequiredResult
  ELSE errorResult

Respond(rec, outcome) ==
  [rec EXCEPT !.pc = "done", !.outcome = outcome, !.login = NoLogin,
              !.cont = "", !.token = 0, !.profile = NoProfile,
              !.baseUrl = None, !.result = toolResult(outcome)]

BeginLogin(rec, frame, cont) ==
  [rec EXCEPT !.pc = "login", !.login = frame, !.cont = cont,
              !.trace = Append(@, Exchange), !.token = 0]

IssueRequest(rec, token) ==
  [rec EXCEPT !.pc = "api", !.token = token,
              !.trace = Append(@, Request(token)),
              !.login = NoLogin, !.cont = ""]

\* ------------------------------------------------------------------------
\* API gateway
\* ------------------------------------------------------------------------
sharedContextProfileId(rec) ==
  LET others == {j \in Invocations : inv[j].pc # "idle" /\ inv[j].ctx # None}
  IN IF others # {} THEN inv[CHOOSE j \in others : TRUE].ctx ELSE rec.ctx

\* toolCallContext.getStore()?.profileId: the store of the asynchronous
\* context the invocation runs in
contextProfileId(rec) == rec.ctx

requiresAuthAlways(opts) == TRUE

\* const requiresAuth = opts.requiresAuth ?? true (the handlers of the model
\* always set the option)
requiresAuthOption(opts) == opts.requiresAuth

\* callSaviyntApi from its entry to its first await (the login request of
\* ensureBearerToken or the API request) or to the error it throws.
callSaviyntApi(st, rec) ==
  LET opts == rec.opts
      requestedProfileId == IF asString(opts.profileId) # None
                              THEN asString(opts.profileId)
                              ELSE contextProfileId(rec)
      Authorize(r, b, rec1, t) ==
        IF r.error # ""
          THEN [st |-> r.st, rec |-> Respond(rec, r.error)]
        ELSE IF requestedProfileId # None /\ r.profile = NoProfile
          THEN [st |-> r.st, rec |-> Respond(rec, "LoginRequired")]
        ELSE IF b.error # ""
          THEN [st |-> r.st, rec |-> Respond(rec1, b.error)]
        ELSE IF ~requiresAuthOption(opts)
          THEN [st |-> r.st, rec |-> IssueRequest(rec1, 0)]
        ELSE IF t.outcome = "token"
          THEN [st |-> t.st, rec |-> IssueRequest(rec1, t.token)]
        ELSE IF t.outcome = "fetch"
          THEN [st |-> t.st, rec |-> BeginLogin(rec1, t.login, "call")]
        ELSE [st |-> t.st, rec |-> Respond(rec1, t.outcome)]
      WithBaseUrl(r, b) ==
        Authorize(r, b,
                  [rec EXCEPT !.profile = r.profile, !.baseUrl = b.baseUrl],
                  ensureBearerTokenStart(r.st, FALSE, r.profile.profileId,
                                         b.baseUrl))
      WithProfile(r) == WithBaseUrl(r, resolveBaseUrl(opts.baseUrl, r.profile))
      Unauthenticated(rp) == [st |-> rp.st, profile |-> rp.profile, error |-> ""]
  IN WithProfile(
       IF requiresAuthOption(opts)
         THEN ensureLoggedInProfile(st, requestedProfileId, opts.baseUrl)
         ELSE Unauthenticated(
                resolveProfileForRequest(st, requestedProfileId, opts.baseUrl)))

retryOnEveryUnauthorized(status, opts) == status = 401

\* response.status === 401 && retryOnUnauthorized && requiresAuth
retryUnauthorized(status, opts) ==
  status = 401 /\ opts.retryOnUnauthorized /\ opts.requiresAuth

\* callSaviyntApi after the response of its API request.
afterApiResponse(st, rec, status) ==
  LET opts == rec.opts
      rec1 == [rec EXCEPT !.trace = Append(@, Answered(status)), !.token = 0]
      Retry(rec2, t) ==
        IF t.outcome = "fetch"
          THEN [st |-> t.st, rec |-> BeginLogin(rec2, t.login, "retry")]
          ELSE [st |-> t.st, rec |-> Respond(rec2, t.outcome)]
      Cleared(st1) ==
        Retry([rec1 EXCEPT !.trace = Append(@, Invalidated(
                 Cardinality({k \in DOMAIN st1.tokenCache :
                    k = getTokenCacheKey(rec.profile.profileId, rec.baseUrl)})))],
              ensureBearerTokenStart(st1, TRUE, rec.profile.profileId, rec.baseUrl))
  IN IF retryUnauthorized(status, opts)
       THEN Cleared(IF rec.profile # NoProfile
                      THEN clearTokenCacheForProfileBaseUrl(
                             st, rec.profile.profileId, rec.baseUrl)
                      ELSE st)
     ELSE IF status = 200
       THEN [st |-> st, rec |-> Respond(rec1, "OK")]
     ELSE [st |-> st, rec |-> Respond(rec1, "UpstreamError")]

afterLoginRetryingAgain(st, rec, token) ==
  LET rec1 == [rec EXCEPT !.login = NoLogin, !.cont = ""]
      retried == [rec1 EXCEPT !.opts.baseUrl = rec.baseUrl,
                              !.opts.profileId = rec.profile.profileId]
  IN CASE rec.cont = "call" -> [st |-> st, rec |-> IssueRequest(rec1, token)]
       [] rec.cont = "retry" -> callSaviyntApi(st, retried)
       [] OTHER -> [st |-> st, rec |-> Respond(rec1, "OK")]

\* The code that runs when ensureBearerToken returns a token it has just
\* obtained: the caller's continuation.
afterLogin(st, rec, token) ==
  LET rec1 == [rec EXCEPT !.login = NoLogin, !.cont = ""]
      retried == [rec1 EXCEPT !.opts.baseUrl = rec.baseUrl,
                              !.opts.profileId = rec.profile.profileId,
                              !.opts.retryOnUnauthorized = FALSE]
  IN CASE rec.cont = "call" -> [st |-> st, rec |-> IssueRequest(rec1, token)]
       [] rec.cont = "retry" -> callSaviyntApi(st, retried)
       [] OTHER -> [st |-> st, rec |-> Respond(rec1, "OK")]

\* ------------------------------------------------------------------------
\* Initial state: a freshly constructed server instance
\* ------------------------------------------------------------------------
DefaultBaseUrls == {None, <<"u">>}
ServiceCredentials == {<<None, None>>, <<<<"s">>, <<"w">>>>}

\* const profiles = new Map(); const tokenCache = new Map();
\* let activeProfileId = null: the state a new instance starts with.
NoStore == [profiles |-> <<>>, tokenCache |-> <<>>, activeProfileId |-> None]

\* No login invocation is in progress.
NoEntry == [profiles |-> <<>>, activeProfileId |-> None]

\* The sessions the HTTP server is given
SessionIds == {1, 2}

\* startHttpServer has returned: the listener is open, the session table is
\* empty and no signal has arrived. transportCloses and serverCloses count
\* the close() calls on a session's transport and server, cleanup is the
\* position of the cleanupSession call that removed the session, events the
\* close events delivered for it.
NoHttp ==
  [sessions |-> <<>>,
   protocol |-> [s \in SessionIds |-> ""],
   transportCloses |-> [s \in SessionIds |-> 0],
   serverCloses |-> [s \in SessionIds |-> 0],
   cleanup |-> [s \in SessionIds |-> "none"],
   events |-> [s \in SessionIds |-> 0],
   shuttingDown |-> FALSE,
   signals |-> 0,
   sessionIds |-> <<>>,
   atSignal |-> {},
   awaiting |-> 0,
   shutdown |-> "idle",
   health |-> 0]

\* Values of SAVIYNT_MAX_RESULT_TEXT_CHARS and of
\* SAVIYNT_MAX_STRUCTURED_CONTENT_CHARS in process.env (0: not set)
TextLimits == {0, 12, 600}
StructuredLimits == {0, 5, 12}

NoShaped ==
  [applied |-> FALSE, value |-> StringValue(<<>>),
   maxTextChars |-> 0, maxStructuredChars |-> 0,
   result |-> [text |-> <<>>, structuredContent |-> NoStructuredContent]]

\* createSaviyntMcpServer(), called without options, has read its
\* configuration from process.env.
Constructed ==
  /\ writesEnabled \in BOOLEAN
  /\ defaultBaseUrl \in DefaultBaseUrls
  /\ \E c \in ServiceCredentials :
       serviceUsername = c[1] /\ servicePassword = c[2]
  /\ profiles = <<>>
  /\ tokenCache = <<>>
  /\ activeProfileId = None
  /\ now = 0
  /\ issued = 0
  /\ calls = 0
  /\ inv = [i \in Invocations |-> Idle]
  /\ \E t \in TextLimits, c \in StructuredLimits :
       env = [SAVIYNT_BASE_URL |-> defaultBaseUrl,
              SAVIYNT_ENABLE_WRITE |-> writesEnabled,
              SAVIYNT_SERVICE_USERNAME |-> serviceUsername,
              SAVIYNT_SERVICE_PASSWORD |-> servicePassword,
              SAVIYNT_MAX_RESULT_TEXT_CHARS |-> t,
              SAVIYNT_MAX_STRUCTURED_CONTENT_CHARS |-> c]
  /\ envAtConstruction = env
  /\ shaped = NoShaped
  /\ instances = [current |-> 1, made |-> 1,
                  parked |-> [id |-> 0, store |-> NoStore]]
  /\ entry = NoEntry
  /\ http = NoHttp

\* ... in a process whose environment sets neither result size maximum
Init ==
  /\ Constructed
  /\ env.SAVIYNT_MAX_RESULT_TEXT_CHARS = 0
  /\ env.SAVIYNT_MAX_STRUCTURED_CONTENT_CHARS = 0

\* A tool invocation arrives: registerTool's wrapper sets the ambient
\* context to asString(args.profileId) and runs the handler.
Arrives(i) ==
  /\ inv[i].pc = "idle"
  /\ calls < MaxCalls
  /\ calls' = calls + 1

Becomes(i, r) ==
  /\ SetStore(r.st)
  /\ inv' = [inv EXCEPT ![i] = r.rec]

\* A tool invocation arrives and runs up to its first await or its result.
Invoke(i, r) ==
  /\ Arrives(i)
  /\ Becomes(i, r)
  /\ UNCHANGED <<config, now, issued, process, shaped>>

\* ------------------------------------------------------------------------
\* Profile tools
\* ------------------------------------------------------------------------
\* The handler of saviynt_upsert_profile up to its first await.
upsertProfileHandler(st, rec, pid, u, pw, url, setActive, authenticate) ==
  LET profileId == IF asString(pid) # None THEN asString(pid)
                   ELSE IF st.activeProfileId # None THEN st.activeProfileId
                   ELSE DEFAULT_PROFILE_ID
      username == asString(u)
      password == asString(pw)
      Authenticate(rec1, t) ==
        IF t.outcome = "fetch"
          THEN [st |-> t.st, rec |-> BeginLogin(rec1, t.login, "handler")]
          ELSE [st |-> t.st, rec |-> Respond(rec1, t.outcome)]
      Stored(up, rec1) ==
        IF authenticate
          THEN Authenticate(rec1,
                 ensureBearerTokenStart(up.st, TRUE, up.profile.profileId,
                                        up.profile.baseUrl))
          ELSE [st |-> clearTokenCacheForProfileBaseUrl(
                         up.st, up.profile.profileId, up.profile.baseUrl),
                rec |-> Respond(rec1, "OK")]
      Upserted(up) ==
        Stored(up, [rec EXCEPT !.profile = up.profile,
                               !.purged = Cardinality(DOMAIN st.tokenCache)
                                          - Cardinality(DOMAIN up.st.tokenCache)])
  IN IF username = None \/ password = None \/ asString(url) = None
       THEN [st |-> st, rec |-> Respond(rec, "ValidationError")]
       ELSE Upserted(upsertProfile(st,
              [profileId |-> profileId, username |-> username,
               password |-> password,
               baseUrl |-> normalizeBaseUrl(asString(url)),
               source |-> "session"],
              setActive))

UpsertProfile(i, pid, u, pw, url, setActive, authenticate) ==
  LET rec == [Idle EXCEPT !.tool = "saviynt_upsert_profile",
                          !.ctx = asString(pid),
                          !.args = [profileId |-> pid, username |-> u,
                                    password |-> pw, url |-> url,
                                    setActive |-> setActive,
                                    authenticate |-> authenticate]]
  IN Invoke(i, upsertProfileHandler(Store, rec, pid, u, pw, url, setActive,
                                    authenticate))

\* loginHandler up to its first await.
loginHandler(st, rec, pid, u, pw, url, setActive) ==
  LET username == asString(u)
      password == asString(pw)
      providedUrl == asString(url)
      requestedProfileId == IF asString(pid) # None THEN asString(pid)
                            ELSE IF st.activeProfileId # None THEN st.activeProfileId
                            ELSE DEFAULT_PROFILE_ID
      existingUrl == IF requestedProfileId \in DOMAIN st.profiles
                       THEN st.profiles[requestedProfileId].baseUrl ELSE None
      resolvedBaseUrl ==
        normalizeBaseUrl(IF providedUrl # None THEN providedUrl
                         ELSE IF existingUrl # None THEN existingUrl
                         ELSE defaultBaseUrl)
      Authenticate(rec1, t) ==
        IF t.outcome = "fetch"
          THEN [st |-> t.st, rec |-> BeginLogin(rec1, t.login, "handler")]
          ELSE [st |-> t.st, rec |-> Respond(rec1, t.outcome)]
      Upserted(up) ==
        Authenticate([rec EXCEPT !.profile = up.profile,
                                 !.purged = Cardinality(DOMAIN st.tokenCache)
                                            - Cardinality(DOMAIN up.st.tokenCache)],
                     ensureBearerTokenStart(up.st, TRUE, up.profile.profileId,
                                            up.profile.baseUrl))
  IN IF username = None \/ password = None
       THEN [st |-> st, rec |-> Respond(rec, "ValidationError")]
     ELSE IF resolvedBaseUrl = None
       THEN [st |-> st, rec |-> Respond(rec, "MissingConfiguration")]
     ELSE Upserted(upsertProfile(st,
            [profileId |-> requestedProfileId, username |-> username,
             password |-> password, baseUrl |-> resolvedBaseUrl,
             source |-> "session"],
            setActive))

Login(i, pid, u, pw, url, setActive) ==
  LET rec == [Idle EXCEPT !.tool = "saviynt_login", !.ctx = asString(pid),
                          !.args = [profileId |-> pid, username |-> u,
                                    password |-> pw, url |-> url,
                                    setActive |-> setActive,
                                    authenticate |-> TRUE]]
  IN Invoke(i, loginHandler(Store, rec, pid, u, pw, url, setActive))

setActiveProfileUnchecked(st, rec, pid) ==
  LET profileId == asString(pid)
  IN IF profileId = None
       THEN [st |-> st, rec |-> Respond(rec, "ValidationError")]
       ELSE [st |-> [st EXCEPT !.activeProfileId = profileId],
             rec |-> Respond(rec, IF profileId \in DOMAIN st.profiles
                                    THEN "OK" ELSE "NotFound")]

\* The handler of saviynt_set_active_profile.
setActiveProfileHandler(st, rec, pid) ==
  LET profileId == asString(pid)
      Activate(found) ==
        IF found.profile = NoProfile
          THEN [st |-> found.st, rec |-> Respond(rec, "NotFound")]
          ELSE [st |-> [found.st EXCEPT
                          !.activeProfileId = found.profile.profileId],
                rec |-> Respond(rec, "OK")]
  IN IF profileId = None
       THEN [st |-> st, rec |-> Respond(rec, "ValidationError")]
     ELSE IF profileId \in DOMAIN st.profiles
       THEN Activate([st |-> st, profile |-> st.profiles[profileId]])
     ELSE IF profileId = ENV_PROFILE_ID
       THEN Activate(ensureAuthFromEnvironment(st, None))
     ELSE Activate([st |-> st, profile |-> NoProfile])

SetActiveProfile(i, pid) ==
  LET rec == [Idle EXCEPT !.tool = "saviynt_set_active_profile",
                          !.ctx = asString(pid)]
  IN Invoke(i, setActiveProfileHandler(Store, rec, pid))

\* profileStatusHandler (saviynt_list_profiles, saviynt_get_token_status,
\* get_token_status), as far as it changes the state.
profileStatusHandler(st0) ==
  LET Listed(st) ==
        LET activeProfile ==
              IF st.activeProfileId # None
                 /\ st.activeProfileId \in DOMAIN st.profiles
                THEN st.activeProfileId
              ELSE IF ENV_PROFILE_ID \in DOMAIN st.profiles THEN ENV_PROFILE_ID
              ELSE None
        IN IF DOMAIN st.profiles = {} THEN st
           ELSE IF activeProfile # None /\ activeProfile # st.activeProfileId
             THEN [st EXCEPT !.activeProfileId = activeProfile]
           ELSE st
  IN Listed(ensureAuthFromEnvironment(st0, None).st)

\* The profiles whose summary carries active: true in the report of
\* profileStatusHandler: getProfileSummary is applied after
\* ensureAuthFromEnvironment and before the pointer is re-derived.
reportedActive(st0) ==
  LET Summaries(st) ==
        {id \in DOMAIN st.profiles : id = st.activeProfileId}
  IN Summaries(ensureAuthFromEnvironment(st0, None).st)

ListProfiles(i) ==
  LET rec == [Idle EXCEPT !.tool = "saviynt_list_profiles"]
  IN Invoke(i, [st |-> profileStatusHandler(Store), rec |-> Respond(rec, "OK")])

deleteProfileKeepingTokens(st, rec, pid) ==
  LET profileId == asString(pid)
      Removed(st1) ==
        [st |-> IF st1.activeProfileId = profileId
                  THEN ensureAuthFromEnvironment(
                         [st1 EXCEPT !.activeProfileId = None], None).st
                  ELSE st1,
         rec |-> Respond([rec EXCEPT !.trace = IF st1.activeProfileId = profileId
                                                 THEN <<Deactivated>> ELSE <<>>],
                         "OK")]
  IN IF profileId = None
       THEN [st |-> st, rec |-> Respond(rec, "ValidationError")]
     ELSE IF profileId \notin DOMAIN st.profiles
       THEN [st |-> st, rec |-> Respond(rec, "NotFound")]
     ELSE Removed([st EXCEPT !.profiles = Drop(st.profiles, {profileId})])

\* The handler of saviynt_delete_profile.
deleteProfileHandler(st, rec, pid) ==
  LET profileId == asString(pid)
      Removed(st1) ==
        [st |-> IF st1.activeProfileId = profileId
                  THEN ensureAuthFromEnvironment(
                         [st1 EXCEPT !.activeProfileId = None], None).st
                  ELSE st1,
         rec |-> Respond([rec EXCEPT !.purged =
                                  Cardinality(DOMAIN st.tokenCache)
                                  - Cardinality(DOMAIN st1.tokenCache),
                                     !.trace = IF st1.activeProfileId = profileId
                                                 THEN <<Deactivated>> ELSE <<>>],
                         "OK")]
  IN IF profileId = None
       THEN [st |-> st, rec |-> Respond(rec, "ValidationError")]
     ELSE IF profileId \notin DOMAIN st.profiles
       THEN [st |-> st, rec |-> Respond(rec, "NotFound")]
     ELSE Removed(clearTokenCacheForProfile(
                    [st EXCEPT !.profiles = Drop(st.profiles, {profileId})],
                    profileId))

DeleteProfile(i, pid) ==
  LET rec == [Idle EXCEPT !.tool = "saviynt_delete_profile",
                          !.ctx = asString(pid)]
  IN Invoke(i, deleteProfileHandler(Store, rec, pid))

\* ------------------------------------------------------------------------
\* Gateway tools
\* ------------------------------------------------------------------------
\* The options callSaviyntApi is given, with its defaults applied
\* (requiresAuth ?? true, retryOnUnauthorized ?? true).
ApiRequestOptions(baseUrl, profileId, requiresAuth) ==
  [baseUrl |-> baseUrl, profileId |-> profileId,
   requiresAuth |-> requiresAuth, retryOnUnauthorized |-> TRUE]

\* A read tool such as saviynt_query_identities: callSaviyntApi at once.
readHandler(st, rec) ==
  callSaviyntApi(st, [rec EXCEPT !.opts = ApiRequestOptions(None, None, TRUE)])

\* A workflow write tool such as saviynt_create_access_request.
workflowWriteHandler(st, rec) ==
  IF ~ensureWritesEnabled(rec.tool)
    THEN [st |-> st, rec |-> Respond(rec, "WriteDisabled")]
    ELSE callSaviyntApi(st, [rec EXCEPT !.opts = ApiRequestOptions(None, None, TRUE)])

\* runV5WriteTool
runV5WriteTool(st, rec, url) ==
  IF ~ensureWritesEnabled(rec.tool)
    THEN [st |-> st, rec |-> Respond(rec, "WriteDisabled")]
    ELSE callSaviyntApi(st,
           [rec EXCEPT !.opts = ApiRequestOptions(asString(url), None, TRUE)])

\* createResourceHandler, modifyResourceHandler, deleteResourceHandler
resourceHandler(st, rec, endpoint, url) ==
  IF ~ensureWritesEnabled(rec.tool)
    THEN [st |-> st, rec |-> Respond(rec, "WriteDisabled")]
  ELSE IF ~endpointGiven(endpoint)
    THEN [st |-> st, rec |-> Respond(rec, "ValidationError")]
  ELSE callSaviyntApi(st,
         [rec EXCEPT !.opts = ApiRequestOptions(asString(url), None, TRUE),
                     !.endpoint = endpoint])

\* rawRequestHandler
rawRequestHandler(st, rec, endpoint, method, url, pid) ==
  IF ~endpointGiven(endpoint)
    THEN [st |-> st, rec |-> Respond(rec, "ValidationError")]
  ELSE IF method \in WRITE_METHODS /\ ~ensureWritesEnabled("raw_request")
    THEN [st |-> st, rec |-> Respond(rec, "WriteDisabled")]
  ELSE callSaviyntApi(st,
         [rec EXCEPT !.opts = ApiRequestOptions(asString(url), asString(pid),
                                                ~authOptionalPath(endpoint)),
                     !.endpoint = endpoint])

\* The number of gateway calls get_complete_access_path makes (getUser,
\* getAccounts, getEntitlements).
AccessPathCalls == 3

\* get_complete_access_path up to the first await of its first call.
accessPathHandler(st, rec) ==
  callSaviyntApi(st, [rec EXCEPT !.opts = ApiRequestOptions(None, None, TRUE),
                                 !.subcalls = AccessPathCalls - 1])

\* The code that runs when the API request of a call is answered:
\* callSaviyntApi to its end and, when it returns to a handler that has
\* further calls to make, the next call up to its first await.
afterCallReturns(st, rec, status) ==
  IF status = 200 /\ rec.subcalls > 0
    THEN callSaviyntApi(st,
           [rec EXCEPT !.trace = Append(@, Answered(status)), !.token = 0,
                       !.profile = NoProfile, !.baseUrl = None,
                       !.opts = ApiRequestOptions(None, None, TRUE),
                       !.subcalls = @ - 1])
    ELSE afterApiResponse(st, rec, status)

\* The operations the specification classifies as writes.
WriteTools ==
  {"saviynt_create_access_request", "saviynt_create_user",
   "saviynt_create_resource", "saviynt_modify_resource",
   "saviynt_delete_resource"}

WriteClassified(tool, method) ==
  \/ tool \in WriteTools
  \/ tool = "saviynt_raw_request" /\ method \in {"POST", "PUT", "PATCH", "DELETE"}

\* The record of a newly arrived gateway tool invocation.
NewCall(tool, method, pid) ==
  [Idle EXCEPT !.tool = tool, !.ctx = asString(pid),
               !.write = WriteClassified(tool, method)]

ReadCall(i, pid) ==
  Invoke(i, readHandler(Store, NewCall("saviynt_query_identities", "POST", pid)))

WorkflowWrite(i, pid) ==
  Invoke(i, workflowWriteHandler(Store,
              NewCall("saviynt_create_access_request", "POST", pid)))

V5Write(i, pid, url) ==
  Invoke(i, runV5WriteTool(Store, NewCall("saviynt_create_user", "POST", pid), url))

ResourceWrite(i, tool, method, pid, endpoint, url) ==
  Invoke(i, resourceHandler(Store, NewCall(tool, method, pid), endpoint, url))

AccessPath(i, pid) ==
  Invoke(i, accessPathHandler(Store,
              NewCall("get_complete_access_path", "POST", pid)))

RawRequest(i, pid, endpoint, method, url) ==
  Invoke(i, rawRequestHandler(Store, NewCall("saviynt_raw_request", method, pid),
                              endpoint, method, url, pid))

\* ------------------------------------------------------------------------
\* Network answers
\* ------------------------------------------------------------------------
\* payloadCandidates of ensureBearerToken: the credentials alone, then the
\* credentials with grant_type "password"
payloadCandidates == <<"credentials", "credentials+grant_type">>

\* response.ok and a token candidate in the body (lines 609-618)
tokenGranted(answer) == answer.status = 200 /\ answer.token

recordFailedAttempt(lg, answer) ==
  IF answer.status = 200
    THEN lg.attempts
    ELSE Append(lg.attempts,
                [endpoint |-> LOGIN_ENDPOINTS[lg.endpoint],
                 status |-> answer.status])

\* attempts.push(...): the path of the attempt with the status of the answer
\* (200 stands for "success response but no token field")
recordAttempt(lg, answer) ==
  Append(lg.attempts,
         [endpoint |-> LOGIN_ENDPOINTS[lg.endpoint], status |-> answer.status])

nextCandidatePayloadFirst(lg) ==
  IF lg.endpoint < Len(LOGIN_ENDPOINTS)
    THEN [endpoint |-> lg.endpoint + 1, payload |-> lg.payload]
    ELSE [endpoint |-> 1, payload |-> lg.payload + 1]

\* The nested loops over LOGIN_ENDPOINTS and payloadCandidates: the
\* candidate tried after the one of the frame.
nextCandidate(lg) ==
  IF lg.payload < NumPayloadCandidates
    THEN [endpoint |-> lg.endpoint, payload |-> lg.payload + 1]
    ELSE [endpoint |-> lg.endpoint + 1, payload |-> 1]

lastCandidate(lg) ==
  lg.endpoint = Len(LOGIN_ENDPOINTS) /\ lg.payload = NumPayloadCandidates

storeTokenKeepingActive(st, lg, token, expires) ==
  [st EXCEPT !.tokenCache = Put(st.tokenCache, lg.cacheKey,
                                tokenState(token, expires))]

storeTokenIfAbsent(st, lg, token, expires) ==
  [st EXCEPT !.tokenCache = IF lg.cacheKey \in DOMAIN st.tokenCache
                              THEN st.tokenCache
                              ELSE Put(st.tokenCache, lg.cacheKey,
                                       tokenState(token, expires)),
             !.activeProfileId = lg.profile.profileId]

\* tokenCache.set(cacheKey, ...); activeProfileId = profile.profileId
storeToken(st, lg, token, expires) ==
  [st EXCEPT !.tokenCache = Put(st.tokenCache, lg.cacheKey,
                                tokenState(token, expires)),
             !.activeProfileId = lg.profile.profileId]

\* ensureBearerToken after the answer to one login attempt.
afterLoginResponse(st, rec, answer, token) ==
  LET lg == rec.login
      Obtain(rec1) ==
        afterLogin(storeToken(st, lg, token, answer.expires), rec1, token)
      Continue(candidate, attempts) ==
        [st |-> st,
         rec |-> [rec EXCEPT !.login.endpoint = candidate.endpoint,
                             !.login.payload = candidate.payload,
                             !.login.attempts = attempts]]
      Fail(attempts) ==
        [st |-> st,
         rec |-> Respond([rec EXCEPT !.attempts = attempts],
                         "AuthenticationFailed")]
  IN IF tokenGranted(answer)
       THEN Obtain([rec EXCEPT
                      !.trace = Append(@, Obtained(token, answer.expires))])
     ELSE IF lastCandidate(lg)
       THEN Fail(recordAttempt(lg, answer))
     ELSE Continue(nextCandidate(lg), recordAttempt(lg, answer))

LoginAnswer(i, answer) ==
  /\ inv[i].pc = "login"
  /\ Becomes(i, afterLoginResponse(Store, inv[i], answer, issued + 1))
  /\ issued' = IF tokenGranted(answer) THEN issued + 1 ELSE issued
  /\ UNCHANGED <<config, now, calls, process, shaped>>

ApiAnswer(i, status) ==
  /\ inv[i].pc = "api"
  /\ Becomes(i, afterCallReturns(Store, inv[i], status))
  /\ UNCHANGED <<config, now, issued, calls, process, shaped>>

\* The result envelope has been handed to the protocol layer.
Finish(i) ==
  /\ inv[i].pc = "done"
  /\ inv' = [inv EXCEPT ![i] = Idle]
  /\ UNCHANGED <<config, profiles, tokenCache, activeProfileId, now, issued,
                 calls, process, shaped>>

\* Time passes.
Tick ==
  /\ now + TickMs <= MaxTicks * TickMs
  /\ now' = now + TickMs
  /\ UNCHANGED <<config, profiles, tokenCache, activeProfileId, issued, calls,
                 inv, process, shaped>>

\* ------------------------------------------------------------------------
\* Specification Spec: the profile store under the profile tools and
\* gateway calls, one invocation at a time, for every configuration
\* ------------------------------------------------------------------------
ProfileIdArgs == {None, <<"p">>, ENV_PROFILE_ID}
NamedProfileIdArgs == {<<"p">>, ENV_PROFILE_ID, DEFAULT_PROFILE_ID}
CredentialArgs ==
  {<<<<"a">>, <<"x">>, <<"u">>>>,
   <<<<"a">>, <<"y">>, <<"v">>>>}
TokenAnswer == [status |-> 200, token |-> TRUE, expires |-> 0]
RejectAnswer == [status |-> 401, token |-> FALSE, expires |-> 0]

UpsertProfileTool ==
  \E pid \in ProfileIdArgs, c \in CredentialArgs, setActive \in BOOLEAN,
     authenticate \in BOOLEAN :
    UpsertProfile(1, pid, c[1], c[2], c[3], setActive, authenticate)

SetActiveProfileTool == \E pid \in NamedProfileIdArgs : SetActiveProfile(1, pid)

ListProfilesTool == ListProfiles(1)

DeleteProfileTool == \E pid \in NamedProfileIdArgs : DeleteProfile(1, pid)

ReadTool == \E pid \in ProfileIdArgs : ReadCall(1, pid)

V5WriteTool ==
  \E pid \in ProfileIdArgs, url \in {None, <<"v">>} : V5Write(1, pid, url)

LoginResponse == \E answer \in {TokenAnswer, RejectAnswer} : LoginAnswer(1, answer)

ApiResponse == \E status \in ApiStatuses : ApiAnswer(1, status)

Responded == Finish(1)

Next ==
  \/ UpsertProfileTool
  \/ SetActiveProfileTool
  \/ ListProfilesTool
  \/ DeleteProfileTool
  \/ ReadTool
  \/ V5WriteTool
  \/ LoginResponse
  \/ ApiResponse
  \/ Responded

Spec == Init /\ [][Next]_vars

\* ------------------------------------------------------------------------
\* Specification CredentialSpec: one session profile upserted and logged in
\* with every shape of credential argument, and used against two base URLs
\* ------------------------------------------------------------------------
UsernameArgs == {<<"a">>, <<"b">>, <<" ", "a">>}
PasswordArgs == {<<"x">>, <<"y">>, <<"x", " ">>}
UrlArgs == {<<"u">>, <<"v">>, <<"u", "/">>, <<" ">>}

CredentialInit ==
  /\ Init
  /\ writesEnabled
  /\ serviceUsername = None

UpsertCredentials ==
  \E u \in UsernameArgs, pw \in PasswordArgs, url \in UrlArgs,
     authenticate \in BOOLEAN :
    UpsertProfile(1, <<"p">>, u, pw, url, TRUE, authenticate)

LoginCredentials ==
  \E u \in UsernameArgs, pw \in PasswordArgs, url \in UrlArgs \cup {None} :
    Login(1, <<"p">>, u, pw, url, TRUE)

CallWithProfile ==
  \E url \in {None, <<"u">>, <<"v">>} : V5Write(1, <<"p">>, url)

LoginGranted == LoginAnswer(1, TokenAnswer)

Served == ApiAnswer(1, 200)

CredentialNext ==
  \/ UpsertCredentials
  \/ LoginCredentials
  \/ CallWithProfile
  \/ LoginGranted
  \/ Served
  \/ Responded

CredentialSpec == CredentialInit /\ [][CredentialNext]_vars

\* ------------------------------------------------------------------------
\* Specification TokenSpec: cached tokens of every reported lifetime while
\* time passes
\* ------------------------------------------------------------------------
TokenInit ==
  /\ Init
  /\ writesEnabled
  /\ serviceUsername # None
  /\ defaultBaseUrl # None

TokenRead == ReadCall(1, None)

TokenUpsert ==
  \E authenticate \in BOOLEAN :
    UpsertProfile(1, <<"p">>, <<"a">>, <<"x">>, <<"u">>, TRUE, authenticate)

TokenLoginResponse == \E answer \in LoginAnswers : LoginAnswer(1, answer)

TokenApiResponse == \E status \in {200, 401} : ApiAnswer(1, status)

TokenNext ==
  \/ TokenRead
  \/ TokenUpsert
  \/ TokenLoginResponse
  \/ TokenApiResponse
  \/ Responded
  \/ Tick

TokenSpec == TokenInit /\ [][TokenNext]_vars

\* ------------------------------------------------------------------------
\* Specification GatewaySpec: every kind of gateway tool, for every
\* configuration
\* ------------------------------------------------------------------------
ResourceTools ==
  {<<"saviynt_create_resource", "POST">>, <<"saviynt_modify_resource", "PUT">>,
   <<"saviynt_delete_resource", "DELETE">>}
RawMethods == {"GET", "POST", "PUT", "PATCH", "DELETE"}

GatewayLogin == Login(1, <<"p">>, <<"a">>, <<"x">>, <<"u">>, TRUE)

GatewayRead == ReadCall(1, None)

WorkflowWriteTool == WorkflowWrite(1, None)

ResourceWriteTool ==
  \E t \in ResourceTools, endpoint \in EndpointArgs :
    ResourceWrite(1, t[1], t[2], None, endpoint, None)

RawRequestTool ==
  \E endpoint \in EndpointArgs, method \in RawMethods :
    RawRequest(1, None, endpoint, method, None)

GatewayNext ==
  \/ GatewayLogin
  \/ GatewayRead
  \/ WorkflowWriteTool
  \/ V5WriteTool
  \/ ResourceWriteTool
  \/ RawRequestTool
  \/ LoginResponse
  \/ ApiResponse
  \/ Responded

GatewaySpec == Init /\ [][GatewayNext]_vars

\* ------------------------------------------------------------------------
\* Specification RawSpec: saviynt_raw_request with and without a profile id
\* and a base URL override, for paths that require a token and the login
\* path that does not, over profiles that are upserted and deleted
\* ------------------------------------------------------------------------
RawUrlArgs == {None, <<"w", "/">>}

RawUpsert ==
  \E pid \in {<<"p">>, ENV_PROFILE_ID}, setActive \in BOOLEAN,
     authenticate \in BOOLEAN :
    UpsertProfile(1, pid, <<"a">>, <<"x">>, <<"v">>, setActive, authenticate)

RawDelete == DeleteProfile(1, <<"p">>)

RawCall ==
  \E pid \in ProfileIdArgs, url \in RawUrlArgs,
     endpoint \in {"/ECM/api/v5/getUser", "/ECM/api/login"} :
    RawRequest(1, pid, endpoint, "GET", url)

RawNext ==
  \/ RawUpsert
  \/ RawDelete
  \/ RawCall
  \/ LoginResponse
  \/ ApiResponse
  \/ Responded

RawSpec == Init /\ [][RawNext]_vars

\* ------------------------------------------------------------------------
\* Specification ContextSpec: two invocations at a time, interleaved at
\* their network awaits: calls of get_complete_access_path with and without
\* a profile id, while upserts move the active pointer
\* ------------------------------------------------------------------------
ContextUpsert ==
  \E i \in Invocations, setActive \in BOOLEAN :
    UpsertProfile(i, <<"p">>, <<"a">>, <<"x">>, <<"v">>, setActive, FALSE)

ContextAccessPath ==
  \E i \in Invocations, pid \in {None, <<"p">>} : AccessPath(i, pid)

ContextLoginResponse == \E i \in Invocations : LoginAnswer(i, TokenAnswer)

ContextApiResponse == \E i \in Invocations : ApiAnswer(i, 200)

ContextResponded == \E i \in Invocations : Finish(i)

ContextNext ==
  \/ ContextUpsert
  \/ ContextAccessPath
  \/ ContextLoginResponse
  \/ ContextApiResponse
  \/ ContextResponded

ContextSpec == TokenInit /\ [][ContextNext]_vars

\* ------------------------------------------------------------------------
\* Specification FairGatewaySpec: GatewaySpec with an upstream that answers
\* every request and a protocol layer that takes every result
\* ------------------------------------------------------------------------
FairGatewaySpec ==
  /\ GatewaySpec
  /\ WF_vars(LoginResponse)
  /\ WF_vars(ApiResponse)
  /\ WF_vars(Responded)

\* ------------------------------------------------------------------------
\* Result shaping: okResult applied to values on both sides of its two
\* maxima, in a process whose environment changes after construction
\* ------------------------------------------------------------------------
ShapeValues ==
  {StringValue([k \in 1..n |-> "a"]) : n \in {0, 11, 12, 13}}
  \cup {RecordValue(Slice(KeyNames, n)) : n \in {0, 1, 2, 51, 52}}
  \cup {ArrayValue(n) : n \in {0, 3}}

\* okResult(value): both maxima are read from process.env, then the value
\* is shaped.
okResultShape(value, environment) ==
  LET Shaped(maxTextChars, maxStructuredChars) ==
        [applied |-> TRUE, value |-> value, maxTextChars |-> maxTextChars,
         maxStructuredChars |-> maxStructuredChars,
         result |-> shape(value, maxTextChars, maxStructuredChars)]
  IN Shaped(positiveIntFromEnv(environment.SAVIYNT_MAX_RESULT_TEXT_CHARS,
                               DEFAULT_MAX_RESULT_TEXT_CHARS),
            positiveIntFromEnv(environment.SAVIYNT_MAX_STRUCTURED_CONTENT_CHARS,
                               DEFAULT_MAX_STRUCTURED_CONTENT_CHARS))

ShapeInit ==
  /\ Constructed
  /\ ~writesEnabled
  /\ defaultBaseUrl = <<"u">>
  /\ serviceUsername = None

\* A handler returns okResult(value).
ShapeResult ==
  \E value \in ShapeValues :
    /\ shaped' = okResultShape(value, env)
    /\ UNCHANGED <<config, profiles, tokenCache, activeProfileId, now, issued,
                   calls, inv, process>>

\* The process environment is changed while the server runs.
ChangeEnvironment ==
  \E t \in TextLimits, c \in StructuredLimits, others \in BOOLEAN :
    /\ env' = [SAVIYNT_BASE_URL |-> IF others THEN <<"v">> ELSE defaultBaseUrl,
               SAVIYNT_ENABLE_WRITE |-> IF others THEN TRUE ELSE writesEnabled,
               SAVIYNT_SERVICE_USERNAME |->
                 IF others THEN <<"s">> ELSE serviceUsername,
               SAVIYNT_SERVICE_PASSWORD |->
                 IF others THEN <<"w">> ELSE servicePassword,
               SAVIYNT_MAX_RESULT_TEXT_CHARS |-> t,
               SAVIYNT_MAX_STRUCTURED_CONTENT_CHARS |-> c]
    /\ env' # env
    /\ UNCHANGED <<config, profiles, tokenCache, activeProfileId, now, issued,
                   calls, inv, envAtConstruction, shaped, instances, entry,
                   http>>

ShapeNext ==
  \/ ShapeResult
  \/ ChangeEnvironment

ShapeSpec == ShapeInit /\ [][ShapeNext]_vars


\* ------------------------------------------------------------------------
\* Specification InstanceSpec: several server instances in one process, as
\* the HTTP server constructs one per session and the serverless handler one
\* per request; requests go to one instance at a time
\* ------------------------------------------------------------------------
newInstanceSharingCache(st) == [NoStore EXCEPT !.tokenCache = st.tokenCache]

\* createSaviyntMcpServer() while an instance with the state st exists: the
\* maps and the pointer of the new instance are its own.
newInstanceStore(st) == NoStore

AllIdle == \A i \in Invocations : inv[i].pc = "idle"

\* A session is opened, or a stateless request arrives: an instance is
\* constructed and the next requests go to it. The instance that served
\* before stays in its session (keep) or is discarded with its request.
NewInstance ==
  \E keep \in BOOLEAN :
    /\ AllIdle
    /\ instances.made <= calls
    /\ SetStore(newInstanceStore(Store))
    /\ instances' =
         [current |-> instances.made + 1, made |-> instances.made + 1,
          parked |-> IF keep
                       THEN [id |-> instances.current, store |-> Store]
                       ELSE instances.parked]
    /\ UNCHANGED <<config, now, issued, calls, inv, env, envAtConstruction,
                   shaped, entry, http>>

\* The next request belongs to the other session.
SwitchInstance ==
  /\ AllIdle
  /\ instances.parked.id # 0
  /\ SetStore(instances.parked.store)
  /\ instances' = [instances EXCEPT
                     !.current = instances.parked.id,
                     !.parked = [id |-> instances.current, store |-> Store]]
  /\ UNCHANGED <<config, now, issued, calls, inv, env, envAtConstruction,
                 shaped, entry, http>>

InstanceLogin == Login(1, None, <<"a">>, <<"x">>, <<"v">>, TRUE)

InstanceRead == ReadCall(1, None)

InstanceList == ListProfiles(1)

InstanceNext ==
  \/ NewInstance
  \/ SwitchInstance
  \/ InstanceLogin
  \/ InstanceRead
  \/ InstanceList
  \/ LoginResponse
  \/ Served
  \/ Responded

InstanceSpec == CredentialInit /\ [][InstanceNext]_vars


\* ------------------------------------------------------------------------
\* Specification ImplicitIdSpec: saviynt_login and saviynt_upsert_profile
\* called without a profileId, with and without an active profile
\* ------------------------------------------------------------------------
NamedUpsert ==
  \E setActive \in BOOLEAN :
    UpsertProfile(1, <<"p">>, <<"a">>, <<"x">>, <<"v">>, setActive, FALSE)

ImplicitUpsert ==
  \E authenticate \in BOOLEAN :
    UpsertProfile(1, None, <<"a">>, <<"y">>, <<"w">>, TRUE, authenticate)

ImplicitLogin ==
  \E url \in {None, <<"w">>}, setActive \in BOOLEAN :
    Login(1, None, <<"a">>, <<"y">>, url, setActive)

ImplicitIdNext ==
  \/ NamedUpsert
  \/ ImplicitUpsert
  \/ ImplicitLogin
  \/ LoginResponse
  \/ Responded

ImplicitIdSpec == CredentialInit /\ [][ImplicitIdNext]_vars


\* ------------------------------------------------------------------------
\* Specification RaceSpec: two invocations at a time, interleaved at their
\* network awaits: profiles are deleted while logins are in flight
\* ------------------------------------------------------------------------
RaceUpsert ==
  \E i \in Invocations, authenticate \in BOOLEAN :
    UpsertProfile(i, <<"p">>, <<"a">>, <<"x">>, <<"v">>, TRUE, authenticate)

RaceDelete == \E i \in Invocations : DeleteProfile(i, <<"p">>)

RaceRead == \E i \in Invocations : ReadCall(i, None)

RaceLoginResponse ==
  \E i \in Invocations, answer \in {TokenAnswer, RejectAnswer} :
    LoginAnswer(i, answer)

RaceNext ==
  \/ RaceUpsert
  \/ RaceDelete
  \/ RaceRead
  \/ RaceLoginResponse
  \/ ContextApiResponse
  \/ ContextResponded

RaceSpec == CredentialInit /\ [][RaceNext]_vars


\* ------------------------------------------------------------------------
\* Specification UpdateSpec: two invocations at a time, interleaved at their
\* network awaits: the credentials of a profile are changed while logins for
\* it are in flight
\* ------------------------------------------------------------------------
UpdateCredentials ==
  \E i \in Invocations, authenticate \in BOOLEAN :
    UpsertProfile(i, <<"p">>, <<"a">>, <<"y">>, <<"v">>, TRUE, authenticate)

UpdateNext ==
  \/ RaceUpsert
  \/ UpdateCredentials
  \/ RaceLoginResponse
  \/ ContextResponded

UpdateSpec == CredentialInit /\ [][UpdateNext]_vars


\* ------------------------------------------------------------------------
\* Specification PrefixSpec: profiles whose identifiers extend one another
\* across the separator of the cache key are authenticated, changed and
\* deleted
\* ------------------------------------------------------------------------
PrefixIds == {<<"p">>, <<"p", ":", ":", "q">>}

PrefixUpsert ==
  \E pid \in PrefixIds, pw \in {<<"x">>, <<"y">>}, authenticate \in BOOLEAN :
    UpsertProfile(1, pid, <<"a">>, pw, <<"v">>, FALSE, authenticate)

PrefixDelete == \E pid \in PrefixIds : DeleteProfile(1, pid)

PrefixNext ==
  \/ PrefixUpsert
  \/ PrefixDelete
  \/ LoginGranted
  \/ Responded

PrefixSpec == CredentialInit /\ [][PrefixNext]_vars


\* ------------------------------------------------------------------------
\* Specification EndpointSpec: raw and resource requests whose endpoint is a
\* path or an absolute URL, with and without a base URL override
\* ------------------------------------------------------------------------
EndpointRaw ==
  \E endpoint \in {"/ECM/api/v5/getUser", AbsoluteEndpoint},
     url \in {None, <<"v">>} :
    RawRequest(1, None, endpoint, "GET", url)

EndpointCreate ==
  \E endpoint \in {"/ECM/api/v5/getUser", AbsoluteEndpoint} :
    ResourceWrite(1, "saviynt_create_resource", "POST", None, endpoint, None)

EndpointNext ==
  \/ EndpointRaw
  \/ EndpointCreate
  \/ LoginResponse
  \/ ApiResponse
  \/ Responded

EndpointSpec == TokenInit /\ [][EndpointNext]_vars


\* ------------------------------------------------------------------------
\* Specification FailedLoginSpec: saviynt_login and saviynt_upsert_profile
\* with authenticate=true, whose login exchange is granted or rejected
\* ------------------------------------------------------------------------
\* A login invocation arrives; the profiles and the pointer it finds are
\* noted.
InvokeLogin(i, r) ==
  /\ Arrives(i)
  /\ Becomes(i, r)
  /\ entry' = [profiles |-> profiles, activeProfileId |-> activeProfileId]
  /\ UNCHANGED <<config, now, issued, env, envAtConstruction, instances,
                 shaped, http>>

AttemptLogin ==
  \E pid \in {<<"p">>, <<"q">>}, pw \in {<<"x">>, <<"y">>},
     setActive \in BOOLEAN :
    LET rec == [Idle EXCEPT !.tool = "saviynt_login", !.ctx = asString(pid),
                            !.args = [profileId |-> pid, username |-> <<"a">>,
                                      password |-> pw, url |-> <<"v">>,
                                      setActive |-> setActive,
                                      authenticate |-> TRUE]]
    IN InvokeLogin(1, loginHandler(Store, rec, pid, <<"a">>, pw, <<"v">>,
                                   setActive))

AttemptUpsert ==
  \E pid \in {<<"p">>, <<"q">>}, pw \in {<<"x">>, <<"y">>},
     setActive \in BOOLEAN :
    LET rec == [Idle EXCEPT !.tool = "saviynt_upsert_profile",
                            !.ctx = asString(pid),
                            !.args = [profileId |-> pid, username |-> <<"a">>,
                                      password |-> pw, url |-> <<"v">>,
                                      setActive |-> setActive,
                                      authenticate |-> TRUE]]
    IN InvokeLogin(1, upsertProfileHandler(Store, rec, pid, <<"a">>, pw,
                                           <<"v">>, setActive, TRUE))

FailedLoginNext ==
  \/ AttemptLogin
  \/ AttemptUpsert
  \/ LoginResponse
  \/ Responded

FailedLoginSpec == CredentialInit /\ [][FailedLoginNext]_vars


\* ------------------------------------------------------------------------
\* Specification HttpSpec: the HTTP server's session table under session
\* initialisation, close events, health requests and shutdown signals
\* ------------------------------------------------------------------------
MaxSignals == 2
MaxCloseEvents == 2

\* Object.keys(sessions)
sessionKeys(h) == [k \in 1..Len(h.sessions) |-> h.sessions[k]]

inTable(h, sessionId) == \E k \in 1..Len(h.sessions) : h.sessions[k] = sessionId

\* cleanupSession up to its first await: an unknown session is left alone,
\* a known one is removed from the table and its transport's close() called.
cleanupSession(h, sessionId) ==
  IF ~inTable(h, sessionId)
    THEN h
    ELSE [h EXCEPT !.sessions = SelectSeq(@, LAMBDA s : s # sessionId),
                   !.transportCloses[sessionId] = @ + 1,
                   !.cleanup[sessionId] = "transport"]

\* shutdown's loop from its next iteration to its next await, or to
\* process.exit(0) when no session id is left
shutdownLoop(h) ==
  IF h.sessionIds = <<>>
    THEN [h EXCEPT !.shutdown = "exited", !.awaiting = 0]
    ELSE LET sessionId == Head(h.sessionIds)
         IN [cleanupSession(h, sessionId) EXCEPT
               !.sessionIds = Tail(@),
               !.awaiting = IF inTable(h, sessionId) THEN sessionId ELSE 0]

\* POST /mcp with an initialize request, or GET /sse: a session is created
\* and put in the table.
OpenSession ==
  \E s \in SessionIds, protocol \in {"streamable", "sse"} :
    /\ ~http.shuttingDown
    /\ http.protocol[s] = ""
    /\ http' = [http EXCEPT !.sessions = Append(@, s),
                            !.protocol[s] = protocol]
    /\ UNCHANGED <<config, profiles, tokenCache, activeProfileId, now, issued,
                   calls, inv, env, envAtConstruction, shaped, instances,
                   entry>>

\* transport.onclose of a streamable session
TransportClosed ==
  \E s \in SessionIds :
    /\ http.shutdown # "exited"
    /\ http.protocol[s] = "streamable"
    /\ http.events[s] < MaxCloseEvents
    /\ http' = cleanupSession([http EXCEPT !.events[s] = @ + 1], s)
    /\ UNCHANGED <<config, profiles, tokenCache, activeProfileId, now, issued,
                   calls, inv, env, envAtConstruction, shaped, instances,
                   entry>>

\* res.on("close") of an SSE session
ResponseClosed ==
  \E s \in SessionIds :
    /\ http.shutdown # "exited"
    /\ http.protocol[s] = "sse"
    /\ http.events[s] < 1
    /\ http' = cleanupSession([http EXCEPT !.events[s] = @ + 1], s)
    /\ UNCHANGED <<config, profiles, tokenCache, activeProfileId, now, issued,
                   calls, inv, env, envAtConstruction, shaped, instances,
                   entry>>

\* An await of cleanupSession returns: after transport.close() the server's
\* close() is called, after server.close() the call is over.
CleanupResumes ==
  \E s \in SessionIds :
    /\ http.shutdown # "exited"
    /\ http.cleanup[s] \in {"transport", "server"}
    /\ http' = IF http.cleanup[s] = "transport"
                 THEN [http EXCEPT !.serverCloses[s] = @ + 1,
                                   !.cleanup[s] = "server"]
                 ELSE [http EXCEPT !.cleanup[s] = "done"]
    /\ UNCHANGED <<config, profiles, tokenCache, activeProfileId, now, issued,
                   calls, inv, env, envAtConstruction, shaped, instances,
                   entry>>

\* GET /health
Health ==
  /\ http.shutdown # "exited"
  /\ http' = [http EXCEPT !.health = Len(sessionKeys(http))]
  /\ UNCHANGED <<config, profiles, tokenCache, activeProfileId, now, issued,
                 calls, inv, env, envAtConstruction, shaped, instances,
                 entry>>

\* SIGINT or SIGTERM: shutdown up to its first await
ShutdownSignal ==
  /\ http.shutdown # "exited"
  /\ http.signals < MaxSignals
  /\ http' = IF http.shuttingDown
               THEN [http EXCEPT !.signals = @ + 1]
               ELSE shutdownLoop([http EXCEPT
                                    !.signals = @ + 1,
                                    !.shuttingDown = TRUE,
                                    !.shutdown = "running",
                                    !.sessionIds = sessionKeys(http),
                                    !.atSignal = {s \in SessionIds :
                                                    inTable(http, s)}])
  /\ UNCHANGED <<config, profiles, tokenCache, activeProfileId, now, issued,
                 calls, inv, env, envAtConstruction, shaped, instances,
                 entry>>

\* The cleanupSession call shutdown awaits has returned: the loop goes on.
ShutdownResumes ==
  /\ http.shutdown = "running"
  /\ http.awaiting # 0 => http.cleanup[http.awaiting] = "done"
  /\ http' = shutdownLoop(http)
  /\ UNCHANGED <<config, profiles, tokenCache, activeProfileId, now, issued,
                 calls, inv, env, envAtConstruction, shaped, instances,
                 entry>>

HttpNext ==
  \/ OpenSession
  \/ TransportClosed
  \/ ResponseClosed
  \/ CleanupResumes
  \/ Health
  \/ ShutdownSignal
  \/ ShutdownResumes

HttpSpec == TokenInit /\ [][HttpNext]_vars


\* ------------------------------------------------------------------------
\* Properties
\* ------------------------------------------------------------------------
KnownBaseUrls == {<<"u">>, <<"v">>, <<"w">>}

TypeOK ==
  /\ activeProfileId \in {None} \cup NamedProfileIdArgs
  /\ \A i \in Invocations : inv[i].pc \in {"idle", "login", "api", "done"}
  /\ \A k \in DOMAIN tokenCache :
       \E id \in NamedProfileIdArgs, url \in KnownBaseUrls \cup DefaultBaseUrls :
         k = getTokenCacheKey(id, url)

\* The store after the step.
PostStore ==
  [profiles |-> profiles', tokenCache |-> tokenCache',
   activeProfileId |-> activeProfileId']

\* The base URLs under which the cache holds an entry of the profile.
CachedFor(cache, profileId) ==
  {url \in KnownBaseUrls : getTokenCacheKey(profileId, url) \in DOMAIN cache}

CredentialsDiffer(a, b) ==
  \/ a.username # b.username
  \/ a.password # b.password
  \/ a.baseUrl # b.baseUrl

\* C1: a step that changes the username, the password or the base URL of a
\* stored profile P leaves no token-cache entry of P under any base URL, and
\* the next ensureBearerToken for P, under the profile's base URL or any
\* other, starts a login exchange instead of returning a cached token.
C1Theorem ==
  [][\A P \in DOMAIN profiles \cap DOMAIN profiles' :
       CredentialsDiffer(profiles[P], profiles'[P]) =>
         /\ CachedFor(tokenCache', P) = {}
         /\ \A url \in KnownBaseUrls \cup {None} :
              ensureBearerTokenStart(PostStore, FALSE, P, url).outcome = "fetch"]_vars

\* An upsert has just removed the entries of the profile under two base URLs.
C1Witness ==
  \E i \in Invocations :
    /\ inv[i].tool = "saviynt_upsert_profile"
    /\ inv[i].args.profileId \in DOMAIN profiles
    /\ inv[i].purged = 2

Trimmed(s) == TrimRight(TrimLeft(s))

\* The arrival of saviynt_upsert_profile with a profile id, accepted.
UpsertStep(i) ==
  /\ inv[i].pc = "idle"
  /\ inv'[i].tool = "saviynt_upsert_profile"
  /\ inv'[i].args.profileId # None
  /\ inv'[i].outcome # "ValidationError"

\* What resolve(id) returns from the store after the step.
ResolvedNext(id) == ensureLoggedInProfile(PostStore, id, None)

\* C9 as stated: after an accepted upsert, resolve(P.id) returns the username
\* and the password exactly as they were given, and the given base URL with
\* its trailing slashes stripped.
C9Original ==
  [][\A i \in Invocations :
       UpsertStep(i) =>
         LET given == inv'[i].args
             r == ResolvedNext(given.profileId)
         IN /\ r.error = ""
            /\ r.profile.username = given.username
            /\ r.profile.password = given.password
            /\ r.profile.baseUrl = normalizeBaseUrl(given.url)]_vars

\* C9 amended: after an accepted upsert, resolve(P.id) returns the given
\* username and password with surrounding whitespace trimmed, and the given
\* base URL trimmed and with its trailing slashes stripped.
C9Theorem ==
  [][\A i \in Invocations :
       UpsertStep(i) =>
         LET given == inv'[i].args
             r == ResolvedNext(given.profileId)
         IN /\ r.error = ""
            /\ r.profile.username = Trimmed(given.username)
            /\ r.profile.password = Trimmed(given.password)
            /\ r.profile.baseUrl = normalizeBaseUrl(Trimmed(given.url))]_vars

\* An upsert given a padded password and a base URL with a trailing slash
\* has been stored.
C9Witness ==
  \E i \in Invocations :
    /\ inv[i].tool = "saviynt_upsert_profile"
    /\ inv[i].outcome = "OK"
    /\ inv[i].args.password = <<"x", " ">>
    /\ inv[i].args.url = <<"u", "/">>
    /\ profiles[inv[i].args.profileId].password = <<"x">>
    /\ profiles[inv[i].args.profileId].baseUrl = <<"u">>

\* The arrival of an authenticated gateway call that resolved a profile and
\* a base URL: callSaviyntApi calls ensureBearerToken(false, ...).
GetTokenStep(i) ==
  /\ inv[i].pc = "idle"
  /\ inv'[i].pc \in {"api", "login"}
  /\ inv'[i].tool = "saviynt_query_identities"
  /\ inv'[i].opts.requiresAuth

\* The arrival of a profile tool that calls ensureBearerToken(true, ...).
ForcedTokenStep(i) ==
  /\ inv[i].pc = "idle"
  /\ inv'[i].pc # "idle"
  /\ inv'[i].args.authenticate
  /\ inv'[i].outcome \notin {"ValidationError", "MissingConfiguration"}

\* C2: with forceRefresh false and an entry of expiry E cached for the
\* (profile, baseUrl) of the call, ensureBearerToken returns the cached
\* bearer value and sends no login request when now < E, and when now >= E it
\* removes the entry and starts a login exchange; with forceRefresh true it
\* starts a login exchange whatever the cache holds.
C2Theorem ==
  [][\A i \in Invocations :
       /\ GetTokenStep(i) =>
            LET key == getTokenCacheKey(inv'[i].profile.profileId, inv'[i].baseUrl)
            IN key \in DOMAIN tokenCache =>
                 IF now < tokenCache[key].tokenExpiresAt
                   THEN /\ inv'[i].pc = "api"
                        /\ inv'[i].trace = <<Request(tokenCache[key].bearerToken)>>
                        /\ tokenCache' = tokenCache
                   ELSE /\ inv'[i].pc = "login"
                        /\ inv'[i].trace = <<Exchange>>
                        /\ key \notin DOMAIN tokenCache'
       /\ ForcedTokenStep(i) =>
            /\ inv'[i].pc = "login"
            /\ inv'[i].trace = <<Exchange>>]_vars

\* A call made after time has passed is being served with the cached token,
\* without a login exchange.
C2Witness ==
  \E i \in Invocations :
    /\ inv[i].tool = "saviynt_query_identities"
    /\ inv[i].pc = "api"
    /\ now > 0
    /\ \E k \in DOMAIN tokenCache :
         /\ inv[i].trace = <<Request(tokenCache[k].bearerToken)>>
         /\ now < tokenCache[k].tokenExpiresAt

\* The events of one kind in a trace.
EventsOf(trace, kind) ==
  LET OfKind(e) == e[1] = kind
  IN SelectSeq(trace, OfKind)

\* C3: a call whose first API request was answered 401 and whose repeated
\* request was answered 200 returns the 200 result; between the two requests
\* it removed the cache entry of its (profile, baseUrl), ran exactly one login
\* exchange, and the repeated request carries the token that exchange
\* obtained, which is not the token of the first request.
C3Theorem ==
  \A i \in Invocations :
    LET t == inv[i].trace
    IN EventsOf(t, "status") = <<Answered(401), Answered(200)>> =>
         /\ inv[i].pc = "done"
         /\ inv[i].outcome = "OK"
         /\ \E k \in 2..Len(t) :
              /\ t[k] = Answered(401)
              /\ t[k - 1][1] = "request"
              /\ Len(EventsOf(SubSeq(t, 1, k), "request")) = 1
              /\ Len(t) = k + 5
              /\ t[k + 1] = Invalidated(0)
              /\ t[k + 2] = Exchange
              /\ t[k + 3][1] = "token"
              /\ t[k + 3][2] # t[k - 1][2]
              /\ t[k + 4] = Request(t[k + 3][2])
              /\ t[k + 5] = Answered(200)

\* A call that started with a cached token was answered 401, logged in again
\* and succeeded.
C3Witness ==
  \E i \in Invocations :
    /\ inv[i].pc = "done"
    /\ inv[i].outcome = "OK"
    /\ Len(inv[i].trace) = 7
    /\ inv[i].trace[1][1] = "request"
    /\ EventsOf(inv[i].trace, "status") = <<Answered(401), Answered(200)>>

\* C4: a call never issues a third API request, never runs more than two
\* login exchanges and never sends more login attempts in one exchange than
\* there are endpoint and payload candidates; and an authenticated call whose
\* API requests were all answered 401, each of its login exchanges having
\* obtained a token, has issued exactly two API requests and fails with
\* UpstreamError.
C4Theorem ==
  \A i \in Invocations :
    LET t == inv[i].trace
        statuses == EventsOf(t, "status")
    IN /\ Len(EventsOf(t, "request")) <= 2
       /\ Len(EventsOf(t, "exchange")) <= 2
       /\ Len(inv[i].login.attempts) < Len(LOGIN_ENDPOINTS) * NumPayloadCandidates
       /\ ( /\ inv[i].pc = "done"
            /\ inv[i].opts.requiresAuth
            /\ statuses # <<>>
            /\ \A n \in 1..Len(statuses) : statuses[n] = Answered(401)
            /\ Len(EventsOf(t, "exchange")) = Len(EventsOf(t, "token")) )
          => /\ Len(EventsOf(t, "request")) = 2
             /\ statuses = <<Answered(401), Answered(401)>>
             /\ inv[i].outcome = "UpstreamError"

\* A call has failed with UpstreamError after two API requests answered 401.
C4Witness ==
  \E i \in Invocations :
    /\ inv[i].pc = "done"
    /\ inv[i].outcome = "UpstreamError"
    /\ EventsOf(inv[i].trace, "status") = <<Answered(401), Answered(401)>>
    /\ Len(EventsOf(inv[i].trace, "request")) = 2

\* The answer to an API request arrives, and its status.
ApiStep(i) ==
  /\ inv[i].pc = "api"
  /\ inv'[i] # inv[i]

ApiStatus(i) == inv'[i].trace[Len(inv[i].trace) + 1][2]

\* C5: when the answer to an API request has a status that is neither a
\* success nor a 401 of a call with retryOnUnauthorized and requiresAuth
\* both true, the call fails with UpstreamError in that step: it issues no
\* further API request, starts no login exchange, and the token cache, the
\* entry of its (profile, baseUrl) included, the profile store and the
\* active pointer stay as they were.
C5Theorem ==
  [][\A i \in Invocations :
       ( /\ ApiStep(i)
         /\ ApiStatus(i) # 200
         /\ \/ ApiStatus(i) # 401
            \/ ~inv[i].opts.retryOnUnauthorized
            \/ ~inv[i].opts.requiresAuth )
       => /\ inv'[i].pc = "done"
          /\ inv'[i].outcome = "UpstreamError"
          /\ inv'[i].trace = Append(inv[i].trace, Answered(ApiStatus(i)))
          /\ tokenCache' = tokenCache
          /\ profiles' = profiles
          /\ activeProfileId' = activeProfileId]_vars

\* An unauthenticated request answered 401 has failed with UpstreamError after
\* that single request, while the cache holds a token.
C5Witness ==
  \E i \in Invocations :
    /\ inv[i].pc = "done"
    /\ inv[i].outcome = "UpstreamError"
    /\ ~inv[i].opts.requiresAuth
    /\ inv[i].trace = <<Request(0), Answered(401)>>
    /\ tokenCache # <<>>

DeleteStep(i) ==
  /\ inv[i].pc = "idle"
  /\ inv'[i].tool = "saviynt_delete_profile"
  /\ inv'[i].outcome = "OK"

Deleted(i) == inv'[i].ctx

\* The profile materialized from the environment for a preferred base URL.
EnvAvailable(preferredBaseUrl) ==
  /\ serviceUsername # None
  /\ servicePassword # None
  /\ preferredBaseUrl # None \/ defaultBaseUrl # None

EnvProfile(preferredBaseUrl) ==
  [profileId |-> ENV_PROFILE_ID, username |-> serviceUsername,
   password |-> servicePassword,
   baseUrl |-> IF preferredBaseUrl # None THEN preferredBaseUrl
               ELSE defaultBaseUrl,
   source |-> "env"]

\* C7 as stated: after a successful delete of any id, the store holds no
\* profile of that id and the cache no entry of that id.
C7Original ==
  [][\A i \in Invocations :
       DeleteStep(i) =>
         /\ Deleted(i) \notin DOMAIN profiles'
         /\ CachedFor(tokenCache', Deleted(i)) = {}]_vars

\* C7 amended: after a successful delete of any id the cache holds no entry
\* of that id, and the store holds no profile of that id, except that the
\* delete of env-default while it is the active profile, with environment
\* credentials and a default base URL configured, leaves a newly
\* materialized env-default profile, which is active.
C7Theorem ==
  [][\A i \in Invocations :
       DeleteStep(i) =>
         /\ CachedFor(tokenCache', Deleted(i)) = {}
         /\ IF /\ Deleted(i) = ENV_PROFILE_ID
               /\ activeProfileId = ENV_PROFILE_ID
               /\ EnvAvailable(None)
              THEN /\ ENV_PROFILE_ID \in DOMAIN profiles'
                   /\ profiles'[ENV_PROFILE_ID] = EnvProfile(None)
                   /\ activeProfileId' = ENV_PROFILE_ID
              ELSE Deleted(i) \notin DOMAIN profiles']_vars

\* A delete has removed a profile together with its cached token.
C7Witness ==
  \E i \in Invocations :
    /\ inv[i].tool = "saviynt_delete_profile"
    /\ inv[i].outcome = "OK"
    /\ inv[i].purged >= 1
    /\ inv[i].ctx \notin DOMAIN profiles

\* What resolve() without an id returns from the store after the step.
ResolvedNextActive == ensureLoggedInProfile(PostStore, None, None)

\* The pointer after the delete of the active profile: unset, or naming the
\* profile materialized from the environment.
PointerCleared ==
  \/ activeProfileId' = None
  \/ /\ activeProfileId' = ENV_PROFILE_ID
     /\ ENV_PROFILE_ID \in DOMAIN profiles'
     /\ profiles'[ENV_PROFILE_ID].source = "env"

ResolveStep(i) ==
  /\ inv[i].pc = "idle"
  /\ inv'[i].tool \in {"saviynt_query_identities", "saviynt_create_user"}
  /\ inv'[i].ctx = None
  /\ inv'[i].outcome # "WriteDisabled"

Preferred(i) == inv'[i].opts.baseUrl

\* C10: resolve() without an id returns the profile the active pointer
\* names when the pointer is set and the profile is in the store; otherwise
\* it stores and returns the env-default profile when environment
\* credentials and a base URL (the call's or the default) are available;
\* otherwise it fails with LoginRequired. No other profile is ever returned.
C10Theorem ==
  [][\A i \in Invocations :
       ResolveStep(i) =>
         IF activeProfileId # None /\ activeProfileId \in DOMAIN profiles
           THEN /\ inv'[i].profile = profiles[activeProfileId]
                /\ profiles' = profiles
         ELSE IF EnvAvailable(Preferred(i))
           THEN /\ inv'[i].profile = EnvProfile(Preferred(i))
                /\ profiles' = Put(profiles, ENV_PROFILE_ID, EnvProfile(Preferred(i)))
         ELSE /\ inv'[i].pc = "done"
              /\ inv'[i].outcome = "LoginRequired"
              /\ profiles' = profiles]_vars

\* A call without a profile id has failed with LoginRequired while a session
\* profile is in the store.
C10Witness ==
  \E i \in Invocations :
    /\ inv[i].tool = "saviynt_query_identities"
    /\ inv[i].ctx = None
    /\ inv[i].outcome = "LoginRequired"
    /\ activeProfileId = None
    /\ \E id \in DOMAIN profiles : profiles[id].source = "session"

\* The arrival of an authenticated gateway call that names a profile.
ExplicitResolveStep(i) ==
  /\ inv[i].pc = "idle"
  /\ inv'[i].tool \in {"saviynt_query_identities", "saviynt_create_user"}
  /\ inv'[i].ctx # None
  /\ inv'[i].outcome # "WriteDisabled"

\* C11: resolving an explicit profile id that is not in the store and is not
\* the env-default id fails, also when an active profile or environment
\* credentials exist: the call ends with the profile-not-found failure (a
\* LoginRequiredError in the code) without any request, and the store, the
\* token cache and the active pointer are left as they were.
C11Theorem ==
  [][\A i \in Invocations :
       ( /\ ExplicitResolveStep(i)
         /\ inv'[i].ctx \notin DOMAIN profiles
         /\ inv'[i].ctx # ENV_PROFILE_ID )
       => /\ inv'[i].pc = "done"
          /\ inv'[i].outcome = "LoginRequired"
          /\ inv'[i].trace = <<>>
          /\ profiles' = profiles
          /\ tokenCache' = tokenCache
          /\ activeProfileId' = activeProfileId]_vars

\* A call naming an absent profile has failed while another profile is
\* active and environment credentials with a default base URL are configured.
C11Witness ==
  \E i \in Invocations :
    /\ inv[i].tool = "saviynt_query_identities"
    /\ inv[i].pc = "done"
    /\ inv[i].outcome = "LoginRequired"
    /\ inv[i].ctx # None
    /\ inv[i].ctx \notin DOMAIN profiles
    /\ inv[i].ctx # ENV_PROFILE_ID
    /\ activeProfileId \in DOMAIN profiles
    /\ EnvAvailable(None)

\* The arrival of saviynt_set_active_profile with a profile id.
SetActiveStep(i) ==
  /\ inv[i].pc = "idle"
  /\ inv'[i].tool = "saviynt_set_active_profile"
  /\ inv'[i].ctx # None

\* C12: setActive(id) fails when id is not in the store and cannot be
\* materialized from the environment (id is not the env-default id, or the
\* environment credentials or the default base URL are missing), and then
\* the active pointer and the store are unchanged; otherwise it succeeds,
\* and then the active pointer equals id and id is in the store.
C12Theorem ==
  [][\A i \in Invocations :
       SetActiveStep(i) =>
         LET id == inv'[i].ctx
         IN IF id \in DOMAIN profiles
                 \/ (id = ENV_PROFILE_ID /\ EnvAvailable(None))
              THEN /\ inv'[i].outcome = "OK"
                   /\ activeProfileId' = id
                   /\ id \in DOMAIN profiles'
                   /\ profiles'[id].profileId = id
              ELSE /\ inv'[i].outcome = "NotFound"
                   /\ activeProfileId' = activeProfileId
                   /\ profiles' = profiles
                   /\ tokenCache' = tokenCache]_vars

\* Setting the active profile has failed for the env-default id, which the
\* environment could not materialize, while another profile stays active.
C12Witness ==
  \E i \in Invocations :
    /\ inv[i].tool = "saviynt_set_active_profile"
    /\ inv[i].outcome = "NotFound"
    /\ inv[i].ctx = ENV_PROFILE_ID
    /\ ~EnvAvailable(None)
    /\ activeProfileId \in DOMAIN profiles

\* The answer to a login attempt that yields a token.
TokenObtainedStep(i) ==
  /\ inv[i].pc = "login"
  /\ issued' = issued + 1

\* C13: a getToken that performs a successful login exchange for profile P
\* at base URL U ends with the active pointer naming P and with the cache
\* entry of (P, U) holding the new token and a new expiry in place of any
\* prior entry; the entries of all other keys are unchanged.
C13Theorem ==
  [][\A i \in Invocations :
       TokenObtainedStep(i) =>
         LET P == inv[i].login.profile.profileId
             U == inv[i].login.baseUrl
             key == getTokenCacheKey(P, U)
         IN /\ activeProfileId' = P
            /\ key \in DOMAIN tokenCache'
            /\ tokenCache'[key].bearerToken = issued'
            /\ tokenCache'[key].tokenExpiresAt > now
            /\ DOMAIN tokenCache' = DOMAIN tokenCache \cup {key}
            /\ \A k \in DOMAIN tokenCache \ {key} :
                 tokenCache'[k] = tokenCache[k]]_vars

\* A second token has been obtained for the active profile while the cache
\* also holds the entry of another key.
C13Witness ==
  \E i \in Invocations :
    /\ inv[i].tool = "saviynt_upsert_profile"
    /\ inv[i].outcome = "OK"
    /\ EventsOf(inv[i].trace, "token") # <<>>
    /\ issued >= 2
    /\ activeProfileId \in DOMAIN profiles
    /\ LET key == getTokenCacheKey(activeProfileId,
                                   profiles[activeProfileId].baseUrl)
       IN /\ key \in DOMAIN tokenCache
          /\ tokenCache[key].bearerToken = issued
    /\ Cardinality(DOMAIN tokenCache) = 2

\* The login attempt a frame of ensureBearerToken is waiting for.
Candidate(lg) ==
  [endpoint |-> LOGIN_ENDPOINTS[lg.endpoint],
   payload |-> payloadCandidates[lg.payload]]

ExpectedOrder ==
  <<[endpoint |-> "/ECM/api/login", payload |-> "credentials"],
    [endpoint |-> "/ECM/api/login", payload |-> "credentials+grant_type"],
    [endpoint |-> "/ECM/api/v1/token", payload |-> "credentials"],
    [endpoint |-> "/ECM/api/v1/token", payload |-> "credentials+grant_type"]>>

\* C14: a login exchange tries (first path, credentials), (first path,
\* credentials with grant type), (second path, credentials), (second path,
\* credentials with grant type) in this order; the first answer with a
\* success status and a token ends it and no login request follows in the
\* exchange; every other answer, a success status without a token included,
\* is recorded and followed by the next candidate while one is left.
C14Theorem ==
  [][\A i \in Invocations :
       /\ (inv[i].pc # "login" /\ inv'[i].pc = "login")
            => /\ Candidate(inv'[i].login) = ExpectedOrder[1]
               /\ inv'[i].login.attempts = <<>>
       /\ (inv[i].pc = "login" /\ inv'[i] # inv[i])
            => LET n == Len(inv[i].login.attempts) + 1
               IN /\ n <= Len(ExpectedOrder)
                  /\ Candidate(inv[i].login) = ExpectedOrder[n]
                  /\ IF issued' > issued
                       THEN /\ inv'[i].pc # "login"
                            /\ EventsOf(inv'[i].trace, "exchange")
                                 = EventsOf(inv[i].trace, "exchange")
                     ELSE IF n < Len(ExpectedOrder)
                       THEN /\ inv'[i].pc = "login"
                            /\ Len(inv'[i].login.attempts) = n
                            /\ Candidate(inv'[i].login) = ExpectedOrder[n + 1]
                     ELSE /\ inv'[i].pc = "done"
                          /\ inv'[i].outcome = "AuthenticationFailed"]_vars

\* The exchange waits for the answer to its fourth attempt after a success
\* status without a token, a rejection and another success without a token.
C14Witness ==
  \E i \in Invocations :
    /\ inv[i].pc = "login"
    /\ Candidate(inv[i].login) = ExpectedOrder[4]
    /\ inv[i].login.attempts =
         <<[endpoint |-> "/ECM/api/login", status |-> 200],
           [endpoint |-> "/ECM/api/login", status |-> 401],
           [endpoint |-> "/ECM/api/v1/token", status |-> 200]>>

\* The answer to a login attempt that yields no token.
TokenRefusedStep(i) ==
  /\ inv[i].pc = "login"
  /\ inv'[i] # inv[i]
  /\ issued' = issued

\* C15: when no attempt of a login exchange yields a token, getToken fails
\* with AuthenticationFailed, and the failure carries one record (path and
\* status of the answer) for each of the candidate attempts, in the order
\* they were made; the exchange writes no cache entry for its (profile,
\* baseUrl) and does not assign the active pointer.
C15Theorem ==
  [][\A i \in Invocations :
       /\ (inv[i].pc # "login" /\ inv'[i].pc = "login")
            => LET key == inv'[i].login.cacheKey
               IN key \in DOMAIN tokenCache'
                    => /\ key \in DOMAIN tokenCache
                       /\ tokenCache'[key] = tokenCache[key]
       /\ TokenRefusedStep(i)
            => /\ tokenCache' = tokenCache
               /\ activeProfileId' = activeProfileId
               /\ profiles' = profiles
               /\ LET made == IF inv'[i].pc = "login"
                                THEN inv'[i].login.attempts
                                ELSE inv'[i].attempts
                  IN /\ Len(made) = Len(inv[i].login.attempts) + 1
                     /\ SubSeq(made, 1, Len(made) - 1) = inv[i].login.attempts
                     /\ made[Len(made)].endpoint
                          = Candidate(inv[i].login).endpoint
                     /\ made[Len(made)].status \in {200, 401}
               /\ inv'[i].pc # "login"
                    => /\ inv'[i].pc = "done"
                       /\ inv'[i].outcome = "AuthenticationFailed"
                       /\ Len(inv'[i].attempts) = Len(ExpectedOrder)
                       /\ \A n \in DOMAIN ExpectedOrder :
                            inv'[i].attempts[n].endpoint
                              = ExpectedOrder[n].endpoint]_vars

\* A call has failed with AuthenticationFailed after a rejection, two
\* success answers without a token and another rejection, and the cache is
\* empty.
C15Witness ==
  \E i \in Invocations :
    /\ inv[i].pc = "done"
    /\ inv[i].outcome = "AuthenticationFailed"
    /\ inv[i].attempts =
         <<[endpoint |-> "/ECM/api/login", status |-> 401],
           [endpoint |-> "/ECM/api/login", status |-> 200],
           [endpoint |-> "/ECM/api/v1/token", status |-> 200],
           [endpoint |-> "/ECM/api/v1/token", status |-> 401]>>
    /\ DOMAIN tokenCache = {}
    /\ activeProfileId # None

\* The lifetime the upstream reported with the last token of a trace (0: no
\* recognizable positive expiry field).
ReportedLifetime(trace) ==
  LET obtained == EventsOf(trace, "token")
  IN obtained[Len(obtained)][3]

\* max(30, floor(0.92 * L)) seconds in milliseconds, L being 3600 when no
\* lifetime was reported.
ExpectedRefreshMs(reported) ==
  LET L == IF reported > 0 THEN reported ELSE 3600
      share == (92 * L) \div 100
  IN 1000 * (IF share > 30 THEN share ELSE 30)

\* C16: after a successful login at time now whose answer reports the
\* lifetime L (L = 3600 when the answer has no recognizable positive expiry
\* field), the cached expiry is now + max(30, floor(0.92 * L)) seconds.
C16Theorem ==
  [][\A i \in Invocations :
       TokenObtainedStep(i) =>
         LET key == inv[i].login.cacheKey
         IN /\ key \in DOMAIN tokenCache'
            /\ tokenCache'[key].tokenExpiresAt
                 = now + ExpectedRefreshMs(ReportedLifetime(inv'[i].trace))]_vars

\* A token reported to live 37 seconds is cached until 34 seconds after the
\* login, and the API request that uses it is under way.
C16Witness ==
  \E i \in Invocations :
    /\ inv[i].pc = "api"
    /\ EventsOf(inv[i].trace, "token") # <<>>
    /\ ReportedLifetime(inv[i].trace) = 37
    /\ LET key == getTokenCacheKey(inv[i].profile.profileId, inv[i].baseUrl)
       IN /\ key \in DOMAIN tokenCache
          /\ tokenCache[key].tokenExpiresAt = now + 34000

\* C17: for every positive reported lifetime L, the expiry stored with the
\* token obtained by a login is strictly earlier than the token's true
\* expiry, the login time plus L seconds (so that a cached token is never
\* returned at or after the time the upstream expires it).
C17Original ==
  [][\A i \in Invocations :
       ( /\ TokenObtainedStep(i)
         /\ ReportedLifetime(inv'[i].trace) > 0 )
       => LET key == inv[i].login.cacheKey
          IN /\ key \in DOMAIN tokenCache'
             /\ tokenCache'[key].tokenExpiresAt
                  < now + 1000 * ReportedLifetime(inv'[i].trace)]_vars

\* The failures of the taxonomy, and the errors a handler returns itself.
Failures ==
  {"LoginRequired", "AuthenticationFailed", "MissingConfiguration",
   "UpstreamError", "WriteDisabled"}

ReturnedErrors == {"ValidationError", "NotFound"}

\* C18: every tool invocation ends, in exactly one of the terminal states
\* Responded-OK, Responded-Error and Responded-LoginRequired; every failure
\* (LoginRequired, AuthenticationFailed, MissingConfiguration,
\* UpstreamError, WriteDisabled) is converted at the boundary into an error
\* envelope, and the LoginRequired envelope is produced exactly when the
\* failure is LoginRequired.
C18Theorem ==
  /\ [](\A i \in Invocations :
          IF inv[i].pc = "done"
            THEN /\ inv[i].outcome \in {"OK"} \cup Failures \cup ReturnedErrors
                 /\ inv[i].result
                      \in {okResult, errorResult, loginRequiredResult}
                 /\ inv[i].result = okResult <=> inv[i].outcome = "OK"
                 /\ inv[i].outcome \in Failures => inv[i].result.isError
                 /\ inv[i].result = loginRequiredResult
                      <=> inv[i].outcome = "LoginRequired"
            ELSE inv[i].result = NoResult /\ inv[i].outcome = "")
  /\ [][\A i \in Invocations :
          inv[i].pc = "done" => inv'[i] \in {inv[i], Idle}]_vars
  /\ \A i \in Invocations : inv[i].pc # "idle" ~> inv[i].pc = "done"

\* An invocation has ended with the LoginRequired failure and has returned
\* the login-required envelope, which is not the generic error envelope.
C18Witness ==
  \E i \in Invocations :
    /\ inv[i].pc = "done"
    /\ inv[i].outcome = "LoginRequired"
    /\ inv[i].result = loginRequiredResult
    /\ inv[i].result # errorResult

\* The arrival of a saviynt_raw_request that reaches callSaviyntApi.
RawCallStep(i) ==
  /\ inv[i].pc = "idle"
  /\ inv'[i].tool = "saviynt_raw_request"
  /\ inv'[i].outcome \notin {"ValidationError", "WriteDisabled"}

\* The base URL of the three sources in their order, None when none exists.
EffectiveBaseUrl(override, profile) ==
  IF override # None THEN normalizeBaseUrl(override)
  ELSE IF profile # NoProfile /\ profile.baseUrl # None THEN profile.baseUrl
  ELSE defaultBaseUrl

\* C19: the effective base URL of a call is the explicit override when one
\* is given, else the resolved profile's base URL, else the process default;
\* when none of the three exists the call fails with MissingConfiguration
\* before any network request is issued.
C19Theorem ==
  [][\A i \in Invocations :
       RawCallStep(i) =>
         LET override == inv'[i].opts.baseUrl
         IN /\ inv'[i].pc # "done"
                 => /\ inv'[i].baseUrl
                         = EffectiveBaseUrl(override, inv'[i].profile)
                    /\ inv'[i].baseUrl # None
            /\ inv'[i].outcome = "MissingConfiguration"
                 => /\ override = None
                    /\ defaultBaseUrl = None
                    /\ inv'[i].trace = <<>>
            /\ ( /\ override = None
                 /\ defaultBaseUrl = None
                 /\ ~inv'[i].opts.requiresAuth
                 /\ inv'[i].ctx = None
                 /\ activeProfileId \notin DOMAIN profiles )
                 => /\ inv'[i].pc = "done"
                    /\ inv'[i].outcome = "MissingConfiguration"
                    /\ inv'[i].trace = <<>>]_vars

\* A request with an override is under way at the normalized override
\* although its profile and the process have base URLs of their own.
C19Witness ==
  \E i \in Invocations :
    /\ inv[i].tool = "saviynt_raw_request"
    /\ inv[i].pc = "api"
    /\ inv[i].opts.baseUrl = <<"w", "/">>
    /\ inv[i].baseUrl = <<"w">>
    /\ inv[i].profile # NoProfile
    /\ inv[i].profile.baseUrl = <<"v">>
    /\ defaultBaseUrl = <<"u">>

\* An invocation of a call with requiresAuth=false (a raw request to a login
\* or token path).
Unauthenticated(r) ==
  /\ r.tool = "saviynt_raw_request"
  /\ r.pc # "idle"
  /\ ~r.opts.requiresAuth

\* A call with requiresAuth=false is never in a login exchange, has started
\* none, and each of its requests went without a bearer token.
NoTokenUsed(r) ==
  /\ r.pc # "login"
  /\ EventsOf(r.trace, "exchange") = <<>>
  /\ EventsOf(r.trace, "token") = <<>>
  /\ \A n \in DOMAIN r.trace : r.trace[n][1] = "request" => r.trace[n] = Request(0)

\* The answer to the request of a call with requiresAuth=false ends the
\* call, a 401 included, and leaves the cache alone.
AnsweredOnce(i) ==
  (ApiStep(i) /\ Unauthenticated(inv[i]))
    => /\ inv'[i].pc = "done"
       /\ inv'[i].outcome = IF ApiStatus(i) = 200 THEN "OK" ELSE "UpstreamError"
       /\ Len(EventsOf(inv'[i].trace, "request")) = 1
       /\ tokenCache' = tokenCache

\* A call with requiresAuth=true issues a request only with the bearer token
\* that the cache holds, unexpired, for its (profile, baseUrl): the one
\* ensureBearerToken has returned.
WithBearerToken(i) ==
  ( /\ inv'[i].tool = "saviynt_raw_request"
    /\ inv'[i].opts.requiresAuth
    /\ Len(EventsOf(inv'[i].trace, "request"))
         > Len(EventsOf(inv[i].trace, "request")) )
    => LET key == getTokenCacheKey(inv'[i].profile.profileId, inv'[i].baseUrl)
       IN /\ inv'[i].token > 0
          /\ inv'[i].trace[Len(inv'[i].trace)] = Request(inv'[i].token)
          /\ key \in DOMAIN tokenCache'
          /\ tokenCache'[key].bearerToken = inv'[i].token
          /\ now < tokenCache'[key].tokenExpiresAt

NamesAbsentProfile(i) ==
  /\ inv'[i].ctx # None
  /\ inv'[i].ctx \notin DOMAIN profiles
  /\ ~(inv'[i].ctx = ENV_PROFILE_ID /\ EnvAvailable(inv'[i].opts.baseUrl))

\* The call names no profile while none is active, and the env-default
\* profile the environment provides replaces a stored env-default profile
\* with other credentials or another base URL.
ReplacesEnvProfile(i) ==
  /\ inv'[i].ctx = None
  /\ activeProfileId \notin DOMAIN profiles
  /\ EnvAvailable(inv'[i].opts.baseUrl)
  /\ ENV_PROFILE_ID \in DOMAIN profiles
  /\ CredentialsDiffer(
       profiles[ENV_PROFILE_ID],
       EnvProfile(normalizeBaseUrl(inv'[i].opts.baseUrl)))

WithoutEnvEntries(cache) ==
  [k \in {k \in DOMAIN cache :
            ~StartsWith(k, getTokenCacheKey(ENV_PROFILE_ID, None))}
     |-> cache[k]]

SubCallStep(i) ==
  /\ inv'[i].tool = "get_complete_access_path"
  /\ inv'[i].pc \in {"login", "api"}
  /\ inv[i].pc \in {"idle", "api"}
  /\ inv'[i] # inv[i]

\* C21: within one tool invocation that carries a profile id, every gateway
\* call that names no profile itself uses that invocation's profile id,
\* whatever other invocations do concurrently (moving the active pointer
\* included); and a concurrently running invocation without a profile id
\* never takes the ambient id of another one: it uses the active profile,
\* or the env-default profile when no stored profile is active.
C21Theorem ==
  [][\A i \in Invocations :
       SubCallStep(i) =>
         /\ inv'[i].ctx # None
              => inv'[i].profile.profileId = inv'[i].ctx
         /\ inv'[i].ctx = None
              => inv'[i].profile.profileId
                   = IF activeProfileId \in DOMAIN profiles
                       THEN activeProfileId ELSE ENV_PROFILE_ID]_vars

\* An invocation for profile p makes its second or third call with p while
\* the active pointer names env-default and another invocation, without a
\* profile id, has a request under way with env-default.
C21Witness ==
  \E i, j \in Invocations :
    /\ i # j
    /\ inv[i].tool = "get_complete_access_path"
    /\ inv[i].ctx = <<"p">>
    /\ inv[i].pc = "api"
    /\ inv[i].subcalls < AccessPathCalls - 1
    /\ inv[i].profile.profileId = <<"p">>
    /\ activeProfileId = ENV_PROFILE_ID
    /\ inv[j].tool = "get_complete_access_path"
    /\ inv[j].ctx = None
    /\ inv[j].pc = "api"
    /\ inv[j].profile.profileId = ENV_PROFILE_ID

\* C22: when the rendered text of the value is longer than the text maximum
\* M in force, the result's text is the first M characters of the rendered
\* text followed by the truncation marker, and the structured payload is the
\* summary envelope {success, truncated: true, originalChars = the full
\* length, returnedChars = M, message}; a text of exactly M characters is
\* returned whole.
C22Theorem ==
  LET fullText == asJsonText(shaped.value)
      M == shaped.maxTextChars
      result == shaped.result
  IN /\ Len(fullText) > M =>
          /\ SubSeq(result.text, 1, M) = SubSeq(fullText, 1, M)
          /\ SubSeq(result.text, M + 1, Len(result.text))
               = TruncationMarker(Len(fullText) - M)
          /\ result.structuredContent
               = [kind |-> "summary", success |-> TRUE, truncated |-> TRUE,
                  originalChars |-> Len(fullText), returnedChars |-> M,
                  message |-> "Result was truncated"]
     /\ Len(fullText) = M => result.text = fullText

\* A text of 13 characters has been cut at a maximum of 12.
C22Witness ==
  /\ shaped.applied
  /\ shaped.maxTextChars = 12
  /\ shaped.value.kind = "string"
  /\ Len(shaped.value.chars) = 13
  /\ Len(shaped.result.text) > 13
  /\ shaped.result.structuredContent.kind = "summary"

\* C23: when the rendered text is not longer than the text maximum, the
\* value is a plain keyed structure and its text is longer than the
\* structured maximum, the result carries the full text unchanged and its
\* structured payload is a summary envelope with success and truncated set
\* and the first min(50, number of keys) top-level key names in their
\* original order.
C23Theorem ==
  LET value == shaped.value
      fullText == asJsonText(value)
      result == shaped.result
      kept == IF Len(value.keys) < 50 THEN Len(value.keys) ELSE 50
  IN (/\ Len(fullText) <= shaped.maxTextChars
      /\ isRecord(value)
      /\ Len(fullText) > shaped.maxStructuredChars)
     => /\ result.text = fullText
        /\ result.structuredContent.kind = "summary"
        /\ result.structuredContent.success
        /\ result.structuredContent.truncated
        /\ Len(result.structuredContent.keys) = kept
        /\ \A k \in 1..kept : result.structuredContent.keys[k] = value.keys[k]

\* A structure of 51 keys, 512 characters long, has been shaped under a text
\* maximum it fits and a structured maximum it exceeds: 50 keys are named.
C23Witness ==
  /\ shaped.applied
  /\ isRecord(shaped.value)
  /\ Len(shaped.value.keys) = 51
  /\ shaped.maxTextChars >= 512
  /\ shaped.maxStructuredChars < 512
  /\ shaped.result.text = asJsonText(shaped.value)
  /\ Len(shaped.result.structuredContent.keys) = 50

\* okResult has been applied to a value that triggers neither size limit.
WithinLimits ==
  LET fullText == asJsonText(shaped.value)
  IN /\ shaped.applied
     /\ Len(fullText) <= shaped.maxTextChars
     /\ ~(shaped.value.kind = "record"
          /\ Len(fullText) > shaped.maxStructuredChars)

\* C24 as stated: for every value that triggers neither size limit, the
\* text is passed through unchanged and the structured payload of the result
\* is the value itself.
C24Original ==
  WithinLimits
  => /\ shaped.result.text = asJsonText(shaped.value)
     /\ shaped.result.structuredContent = PassedThrough(shaped.value)

\* C24: for every value that triggers neither size limit the text is passed
\* through unchanged; the structured payload is the value itself when the
\* value is a plain keyed structure, and the result has no structured
\* payload when it is not (a string, an array).
C24Theorem ==
  WithinLimits
  => /\ shaped.result.text = asJsonText(shaped.value)
     /\ shaped.result.structuredContent
          = IF shaped.value.kind = "record"
              THEN PassedThrough(shaped.value)
              ELSE NoStructuredContent

\* A structure of one key, whose text has exactly the 12 characters both
\* maxima allow, has been passed through.
C24Witness ==
  /\ shaped.applied
  /\ shaped.value.kind = "record"
  /\ Len(shaped.value.keys) = 1
  /\ shaped.maxTextChars = 12
  /\ shaped.maxStructuredChars = 12
  /\ shaped.result.structuredContent = PassedThrough(shaped.value)

\* C25 as stated: the process configuration is read once, at construction:
\* whatever is changed in the environment afterwards, the instance keeps the
\* default base URL, write-enable flag and service-account credentials it
\* was constructed with, and every result is shaped under the two maxima the
\* environment held at construction.
C25Original ==
  /\ defaultBaseUrl = envAtConstruction.SAVIYNT_BASE_URL
  /\ writesEnabled = envAtConstruction.SAVIYNT_ENABLE_WRITE
  /\ serviceUsername = envAtConstruction.SAVIYNT_SERVICE_USERNAME
  /\ servicePassword = envAtConstruction.SAVIYNT_SERVICE_PASSWORD
  /\ shaped.applied
       => shaped.result = okResultShape(shaped.value, envAtConstruction).result

\* The call of invocation i, answered 401, invalidates the cache entry of
\* its (profile, baseUrl).
InvalidationStep(i) ==
  /\ inv[i].pc = "api"
  /\ Len(EventsOf(inv'[i].trace, "invalidated"))
       = Len(EventsOf(inv[i].trace, "invalidated")) + 1

\* The entries of every (profile, base URL) other than (P, U) are the same
\* before and after the step.
OtherEntriesKept(P, U) ==
  \A Q \in NamedProfileIdArgs, V \in KnownBaseUrls :
    LET key == Q \o Sep \o V
    IN (Q # P \/ V # normalizeBaseUrl(U))
       => /\ (key \in DOMAIN tokenCache) = (key \in DOMAIN tokenCache')
          /\ key \in DOMAIN tokenCache => tokenCache'[key] = tokenCache[key]

\* C26: the entries of the token cache are kept per (profile id, normalized
\* base URL): a login of P against one base URL leaves P's entries for other
\* base URLs as they are, and the invalidation after a 401 of a call for
\* (P, U) removes the entry of (P, U) and changes no other entry of P or of
\* another profile.
C26Theorem ==
  [][\A i \in Invocations :
       /\ TokenObtainedStep(i)
            => OtherEntriesKept(inv[i].login.profile.profileId,
                                inv[i].login.baseUrl)
       /\ (InvalidationStep(i) /\ inv[i].profile # NoProfile)
            => /\ OtherEntriesKept(inv[i].profile.profileId, inv[i].baseUrl)
               /\ (inv[i].profile.profileId \o Sep
                     \o normalizeBaseUrl(inv[i].baseUrl))
                    \notin DOMAIN tokenCache']_vars

\* Profile p held tokens for the base URLs v and w; a call for (p, v) was
\* answered 401 and has removed the entry of (p, v) only.
C26Witness ==
  /\ inv[1].pc = "login"
  /\ inv[1].cont = "retry"
  /\ inv[1].profile.profileId = <<"p">>
  /\ normalizeBaseUrl(inv[1].baseUrl) = <<"v">>
  /\ (<<"p">> \o Sep \o <<"v">>) \notin DOMAIN tokenCache
  /\ (<<"p">> \o Sep \o <<"w">>) \in DOMAIN tokenCache

\* The login exchange of invocation i returns a token.
OwnLoginStep(i) ==
  /\ TokenObtainedStep(i)
  /\ inv'[i] # inv[i]

\* C27: logins of concurrent invocations for one (profile, baseUrl) are not
\* coalesced. Whenever the login of an invocation completes, under every
\* interleaving, that invocation goes on with the token its own login
\* returned, whatever the cache held, no other invocation is touched, and the
\* single cache entry of the key holds that token: after both logins the
\* entry is the one of the login that completed last.
C27Theorem ==
  [][\A i \in Invocations :
       OwnLoginStep(i) =>
         LET key == getTokenCacheKey(inv[i].login.profile.profileId,
                                     inv[i].login.baseUrl)
         IN /\ inv'[i].pc = "api"
            /\ inv'[i].token = issued'
            /\ inv'[i].trace[Len(inv'[i].trace)] = Request(issued')
            /\ DOMAIN tokenCache' = DOMAIN tokenCache \cup {key}
            /\ tokenCache'[key].bearerToken = issued'
            /\ \A j \in Invocations \ {i} : inv'[j] = inv[j]]_vars

\* Two invocations have logged in for (p, v) at the same time: each has its
\* request under way with its own token, and the cache holds the later one.
C27Witness ==
  \E i, j \in Invocations :
    /\ inv[i].pc = "api"
    /\ inv[j].pc = "api"
    /\ inv[i].profile.profileId = <<"p">>
    /\ inv[j].profile.profileId = <<"p">>
    /\ inv[i].baseUrl = inv[j].baseUrl
    /\ inv[i].token > 0
    /\ inv[j].token > inv[i].token
    /\ tokenCache[getTokenCacheKey(<<"p">>, inv[i].baseUrl)].bearerToken
         = inv[j].token

\* The identifiers of the instances that exist, and the state of each.
InstanceIds == {instances.current, instances.parked.id} \ {0}

StoreOf(id) == IF id = instances.current THEN Store ELSE instances.parked.store

\* C28: the profile store, the token cache and the active pointer belong to
\* one server instance. A step changes the state of no instance other than
\* the one that handles the request, so what resolve, getToken and list
\* return through another instance stays the same; and an instance that is
\* constructed, as the stateless handler does for every request, starts
\* with no profile, no token and no active profile: a login of an earlier
\* request is not visible in it.
C28Theorem ==
  [][LET idsAfter == {instances'.current, instances'.parked.id} \ {0}
         StoreAfter(id) == IF id = instances'.current
                             THEN PostStore
                             ELSE instances'.parked.store
     IN /\ \A id \in InstanceIds \cap idsAfter :
             StoreAfter(id) # StoreOf(id)
               => id = instances.current /\ id = instances'.current
        /\ instances'.made > instances.made
             => /\ instances'.current = instances'.made
                /\ PostStore = NoStore]_vars

\* One instance has logged in and holds a token; a read through an instance
\* constructed afterwards has been refused for want of a login.
C28Witness ==
  /\ instances.parked.id # 0
  /\ instances.current > instances.parked.id
  /\ instances.parked.store.tokenCache # <<>>
  /\ instances.parked.store.activeProfileId # None
  /\ tokenCache = <<>>
  /\ inv[1].tool = "saviynt_query_identities"
  /\ inv[1].pc = "done"
  /\ inv[1].outcome = "LoginRequired"

\* saviynt_login or saviynt_upsert_profile arrives without a profileId and
\* stores the profile it was given.
ImplicitIdStep(i) ==
  /\ inv[i].pc = "idle"
  /\ inv'[i].tool \in {"saviynt_login", "saviynt_upsert_profile"}
  /\ inv'[i].args.profileId = None
  /\ inv'[i].profile # NoProfile

\* C29 as stated: a login or an upsert without a profileId creates or
\* updates the profile "default" and leaves the credentials and the base URL
\* of every other stored profile as they were, whatever profile is active.
C29Original ==
  [][\A i \in Invocations :
       ImplicitIdStep(i) =>
         /\ inv'[i].profile.profileId = DEFAULT_PROFILE_ID
         /\ DEFAULT_PROFILE_ID \in DOMAIN profiles'
         /\ \A id \in DOMAIN profiles \ {DEFAULT_PROFILE_ID} :
              /\ id \in DOMAIN profiles'
              /\ profiles'[id].username = profiles[id].username
              /\ profiles'[id].password = profiles[id].password
              /\ profiles'[id].baseUrl = profiles[id].baseUrl]_vars

\* C30 as stated: in every reachable state, under every interleaving of
\* concurrent invocations at their network awaits, the active pointer is
\* unset or names a profile that is present in the profile store.
C30Original ==
  activeProfileId = None \/ activeProfileId \in DOMAIN profiles

\* C31 as stated: in every reachable state, under every interleaving of
\* concurrent invocations, every entry of the token cache is keyed by a
\* profile that is present in the profile store.
C31Original ==
  \A k \in DOMAIN tokenCache :
    \E id \in DOMAIN profiles : StartsWith(k, id \o Sep)

\* No login exchange for profile P is in flight in an invocation other
\* than i.
NoOtherLoginInFlight(i, P) ==
  \A j \in Invocations \ {i} :
    ~(inv[j].pc = "login" /\ inv[j].login.profile.profileId = P)

\* C32 as stated: when the credentials of P are changed while a login
\* exchange for P is in flight, the later update wins: once the logins for P
\* have completed, the token the cache is given for P was obtained with the
\* credentials P has in the store.
C32Original ==
  [][\A i \in Invocations :
       LET lg == inv[i].login
           P == lg.profile.profileId
       IN (/\ OwnLoginStep(i)
           /\ NoOtherLoginInFlight(i, P)
           /\ P \in DOMAIN profiles')
          => /\ tokenCache'[lg.cacheKey].bearerToken = issued'
             /\ lg.profile.username = profiles'[P].username
             /\ lg.profile.password = profiles'[P].password]_vars

\* saviynt_upsert_profile or saviynt_delete_profile arrives for the profile
\* it names.
ProfileChangeStep(i) ==
  /\ inv[i].pc = "idle"
  /\ inv'[i].tool \in {"saviynt_upsert_profile", "saviynt_delete_profile"}

\* C33 as stated: invalidating the cached tokens of profile P, on a change
\* of its credentials or on its deletion, removes only entries of P: the
\* entries of every other profile identifier Q, also of a Q that begins
\* with P followed by "::", are unchanged.
C33Original ==
  [][\A i \in Invocations :
       ProfileChangeStep(i) =>
         \A Q \in PrefixIds \ {inv'[i].ctx}, U \in KnownBaseUrls :
           LET key == getTokenCacheKey(Q, U)
           IN key \in DOMAIN tokenCache
                => /\ key \in DOMAIN tokenCache'
                   /\ tokenCache'[key] = tokenCache[key]]_vars

\* A step of a saviynt_upsert_profile or saviynt_login invocation that was
\* called with setActive=false for a profile other than the active one and
\* has not failed.
InactiveStep(i) ==
  /\ inv'[i] # inv[i]
  /\ inv'[i].tool \in {"saviynt_upsert_profile", "saviynt_login"}
  /\ ~inv'[i].args.setActive
  /\ asString(inv'[i].args.profileId) \notin {None, activeProfileId}
  /\ inv'[i].outcome \in {"", "OK"}

\* C34 as stated: a successful saviynt_upsert_profile or saviynt_login
\* called with setActive=false for a profile other than the active one
\* leaves the active pointer as it was, whether or not the call
\* authenticates the profile.
C34Original ==
  [][\A i \in Invocations :
       InactiveStep(i) => activeProfileId' = activeProfileId]_vars

\* A listing operation runs.
ListStep(i) ==
  /\ inv[i].pc = "idle"
  /\ inv'[i].tool = "saviynt_list_profiles"

\* C35 as stated: the listing operations are read-only for existing data:
\* they leave every cached token and the username, secret and base URL of
\* every stored profile unchanged, and they report active: true for exactly
\* the profile the active pointer names.
C35Original ==
  [][\A i \in Invocations :
       ListStep(i) =>
         /\ tokenCache' = tokenCache
         /\ \A id \in DOMAIN profiles :
              /\ id \in DOMAIN profiles'
              /\ profiles'[id].username = profiles[id].username
              /\ profiles'[id].password = profiles[id].password
              /\ profiles'[id].baseUrl = profiles[id].baseUrl
         /\ reportedActive(Store) = {activeProfileId'} \cap DOMAIN profiles']_vars

\* A Gateway call arrives with a base URL override.
OverrideStep(i) ==
  /\ inv[i].pc = "idle"
  /\ inv'[i].pc # "idle"
  /\ inv'[i].opts.baseUrl # None

\* C36 as stated: a Gateway call made with a base URL override changes the
\* base URL stored in no profile, and the environment-default profile, when
\* the call materializes it, has the process default base URL.
C36Original ==
  [][\A i \in Invocations :
       OverrideStep(i) =>
         /\ \A id \in DOMAIN profiles \cap DOMAIN profiles' :
              profiles'[id].baseUrl = profiles[id].baseUrl
         /\ (ENV_PROFILE_ID \in DOMAIN profiles' \ DOMAIN profiles)
              => profiles'[ENV_PROFILE_ID].baseUrl = defaultBaseUrl]_vars

\* Invocation i sends an API request that carries a bearer token.
AuthenticatedRequestStep(i) ==
  /\ inv'[i] # inv[i]
  /\ inv'[i].pc = "api"
  /\ inv'[i].token > 0

\* C37 as stated: a bearer token is attached only to requests sent to the
\* base endpoint it was obtained from: every authenticated request carries
\* the token the cache holds for the call's (profile, base URL), and goes to
\* that base URL, for every endpoint argument, an absolute URL included.
C37Original ==
  [][\A i \in Invocations :
       AuthenticatedRequestStep(i) =>
         LET r == inv'[i]
             key == getTokenCacheKey(r.profile.profileId, r.baseUrl)
         IN /\ key \in DOMAIN tokenCache'
            /\ tokenCache'[key].bearerToken = r.token
            /\ requestOrigin(r.endpoint, r.baseUrl) = r.baseUrl]_vars

\* The login exchange of invocation i of saviynt_login, or of
\* saviynt_upsert_profile with authenticate=true, has failed.
LoginExchangeFailed(i) ==
  /\ inv[i].pc = "done"
  /\ inv[i].tool \in {"saviynt_login", "saviynt_upsert_profile"}
  /\ inv[i].args.authenticate
  /\ inv[i].outcome = "AuthenticationFailed"

\* C38 as stated: when the login exchange of saviynt_login, or of
\* saviynt_upsert_profile with authenticate=true, fails, the invocation
\* responds with an error and the profiles and the active pointer are as
\* they were before the invocation: the rejected credentials are not stored
\* and do not become the active profile.
C38Original ==
  LoginExchangeFailed(1) =>
    /\ inv[1].result.isError
    /\ profiles = entry.profiles
    /\ activeProfileId = entry.activeProfileId

\* A close() call is made on the transport or the server of session s.
ClosesSession(s) ==
  \/ http'.transportCloses[s] > http.transportCloses[s]
  \/ http'.serverCloses[s] > http.serverCloses[s]

\* The transport and the server of session s have both been closed.
SessionClosed(s) ==
  /\ http.transportCloses[s] >= 1
  /\ http.serverCloses[s] >= 1

\* C39 as stated: for every interleaving of transport close events, response
\* close events and shutdown signals, a session is out of the session table
\* when its transport or server is closed, each is closed at most once, the
\* health endpoint reports the number of sessions in the table, every
\* session that was in the table at the shutdown signal is closed when the
\* process exits, and a second signal during shutdown changes nothing.
C39Original ==
  /\ [](\A s \in SessionIds :
          /\ http.transportCloses[s] <= 1
          /\ http.serverCloses[s] <= 1
          /\ http.shutdown = "exited" /\ s \in http.atSignal
               => SessionClosed(s))
  /\ [][/\ \A s \in SessionIds : ClosesSession(s) => ~inTable(http', s)
        /\ http'.health # http.health => http'.health = Len(http.sessions)
        /\ http.shuttingDown /\ http'.signals > http.signals
             => http' = [http EXCEPT !.signals = http'.signals]]_vars

====
